---- MODULE Spec2Model ----
(***************************************************************************)
(* List query hooks of the fleet-management client:                        *)
(*   useVehicleSchedulesData  (features/schedules/pages/VehicleSchedulesPage.tsx) *)
(*   useMaintenanceOrdersData (unnamed/part_010)                           *)
(*   useDriversData           (features/drivers/hooks/useDriversData.tsx)  *)
(* One mounted hook instance is modelled at a time (variable hook); the    *)
(* React render cycle is folded into each handler: a handler's state       *)
(* updates are batched, then the effects whose dependencies changed run    *)
(* (debounce effect on the search term, fetch effect on fetchData).        *)
(***************************************************************************)
EXTENDS Integers, Sequences, FiniteSets, TLC

\* ------------------------------------------------------------------ bounds
MaxInFlight == 2      \* list requests that may be awaiting their response
MaxPage == 2          \* largest totalPages the backend answers with
TickMs == 150         \* granularity of the clock that drives the timers

\* ------------------------------------------------------- program constants
DebounceMs == 300     \* setTimeout(..., 300)

Hooks == {"schedules", "orders", "drivers"}

Null == "null"        \* JS null (sortBy, error)
None == <<>>          \* JS undefined, as an optional value
Some(x) == <<x>>

Terms == {"", "a", "b"}          \* texts typed into the search box
EmailTerms == {"", "e"}          \* texts typed into the e-mail search box
StatusInputs == {"active", "completed"}   \* check boxes pressed
PageInputs == 0 .. (MaxPage + 1)          \* page numbers asked for
FetchFailed == "Failed to fetch"          \* message of a rejected request

\* column headers that can be pressed, per hook
SortInputs(h) ==
    IF h = "drivers" THEN {"name", "email"} ELSE {"startDate", "status"}

\* page sizes that can be chosen, per hook
LimitInputs(h) ==
    IF h = "schedules" THEN {6, 10} ELSE {5, 10}

VARIABLES
    hook,                      \* which of the three hooks this instance is
    mounted,                   \* the component using the hook is mounted
    searchTerm,                \* useState: text of the search box
    emailSearchTerm,           \* useState (drivers): text of the e-mail box
    statusFilters,             \* useState: array of selected statuses
    sortBy,                    \* useState: sort column or Null
    sortOrder,                 \* useState: "asc" | "desc"
    currentPage,               \* useState: 1-based page
    itemsPerPage,              \* useState: page size
    debouncedSearchTerm,       \* useState: committed search term
    debouncedEmailSearchTerm,  \* useState (drivers): committed e-mail term
    timers,                    \* pending setTimeout callbacks
    searchTimeoutRef,          \* useRef: id of the last search timer, 0 if none
    emailSearchTimeoutRef,     \* useRef: id of the last e-mail timer, 0 if none
    inflight,                  \* query params of the requests awaiting a response
    items,                     \* useState: rows shown
    totalCount,                \* useState
    totalPages,                \* useState
    hasNextPage,               \* useState
    hasPreviousPage,           \* useState
    loading,                   \* useState
    error,                     \* useState: message or Null
    lastOp                     \* history: the last step taken, and the terms of the
                               \* waiting search timers it cancelled

\* Schedules overview page and its Gantt chart
VARIABLES
    currentStartDate,          \* useState: instant at which the window starts
    daysToShow,                \* useState: days in the window
    ganttItems,                \* items handed to GanttChart, in list order
    parseThrows,               \* whether dateUtils raises on a malformed date
    today,                     \* the calendar day getToday() returns
    chart                      \* what the last render of GanttChart drew

\* The other pages: each variable holds the state of one component
VARIABLES
    form,                      \* an add / edit form page: its useState values and
                               \* the requests it has sent
    dashboard,                 \* the dashboard: the fleet data and what is shown
    listPage,                  \* a list page around its hook: the delete modal,
                               \* the delete in progress, the records on the server
    wizard,                    \* the create-schedule wizard
    auth                       \* authService: the token in AsyncStorage and the
                               \* calls that wait for the backend

pageVars == <<form, dashboard, listPage, wizard, auth>>
ganttVars == <<currentStartDate, daysToShow, ganttItems, parseThrows, today, chart>>
queryVars == <<searchTerm, emailSearchTerm, statusFilters, sortBy, sortOrder,
               currentPage, itemsPerPage>>
debounceVars == <<debouncedSearchTerm, debouncedEmailSearchTerm>>
timerVars == <<timers, searchTimeoutRef, emailSearchTimeoutRef>>
dataVars == <<items, totalCount, totalPages, hasNextPage, hasPreviousPage>>
fetchVars == <<inflight, loading, error>>
vars == <<pageVars, ganttVars, hook, mounted, queryVars, debounceVars, timerVars, dataVars, fetchVars,
          lastOp>>

\* ----------------------------------------------------------------- helpers
SetOf(s) == {s[i] : i \in 1 .. Len(s)}

Includes(s, x) == x \in SetOf(s)

\* Array.prototype.filter(s => s # x)
Without(s, x) == SelectSeq(s, LAMBDA e : e # x)

RemoveAt(s, i) == SubSeq(s, 1, i - 1) \o SubSeq(s, i + 1, Len(s))

Max(a, b) == IF a >= b THEN a ELSE b

\* ------------------------------------------------------- getInitialState
InitialState(h) ==
    CASE h = "schedules" ->
           [search |-> "", status |-> <<"active", "scheduled">>,
            sortBy |-> "startDate", sortOrder |-> "desc", page |-> 1, limit |-> 6]
      [] h = "orders" ->
           [search |-> "", status |-> <<"active", "scheduled", "pending_authorization">>,
            sortBy |-> "startDate", sortOrder |-> "desc", page |-> 1, limit |-> 10]
      [] h = "drivers" ->
           [search |-> "", status |-> <<>>,
            sortBy |-> Null, sortOrder |-> "asc", page |-> 1, limit |-> 10]

\* ------------------------------------------------------ fetchData: params
\* x || undefined : the empty string and null become undefined
OrUndefined(x) == IF x = "" \/ x = Null THEN None ELSE Some(x)

\* variant: the request takes the text of the search box, not the committed term
QueryParamsUndebounced ==
    [search      |-> OrUndefined(searchTerm),
     emailSearch |-> IF hook = "drivers"
                     THEN OrUndefined(debouncedEmailSearchTerm) ELSE None,
     status      |-> IF hook # "drivers" /\ Len(statusFilters) > 0
                     THEN Some(statusFilters) ELSE None,
     sortBy      |-> OrUndefined(sortBy),
     sortOrder   |-> sortOrder,
     page        |-> currentPage,
     limit       |-> itemsPerPage]

\* queryParams of fetchData
QueryParams ==
    [search      |-> OrUndefined(debouncedSearchTerm),
     emailSearch |-> IF hook = "drivers"
                     THEN OrUndefined(debouncedEmailSearchTerm) ELSE None,
     status      |-> IF hook # "drivers" /\ Len(statusFilters) > 0
                     THEN Some(statusFilters) ELSE None,
     sortBy      |-> OrUndefined(sortBy),
     sortOrder   |-> sortOrder,
     page        |-> currentPage,
     limit       |-> itemsPerPage]

\* dependency list of the fetchData callback (statusFilters, an array, is
\* compared by identity and handled by the caller of FetchEffect)
Deps == <<debouncedSearchTerm, debouncedEmailSearchTerm, sortBy, sortOrder,
          currentPage, itemsPerPage>>

\* fetchData up to its await: setLoading(true); setError(null); send request
IssueFetch ==
    /\ Len(inflight) < MaxInFlight
    /\ inflight' = Append(inflight, QueryParams')
    /\ loading' = TRUE
    /\ error' = Null

\* useEffect(() => { fetchData() }, [fetchData]) after a render:
\* runs when a dependency of fetchData changed
FetchEffect(filtersReplaced) ==
    IF filtersReplaced \/ Deps' # Deps
    THEN IssueFetch
    ELSE UNCHANGED fetchVars

\* ------------------------------------------------------------------ timers
\* variant: clearTimeout that cancels nothing
ClearTimeoutKeeps(ts, id) == ts

\* clearTimeout(id): a pending timer with that id no longer fires
ClearTimeout(ts, id) == {t \in ts : t.id # id}

\* setTimeout: the id handed out is not the id of a pending timer (nor the
\* id the other ref still holds)
FreshId(ts, otherRef) ==
    CHOOSE n \in 1 .. (Cardinality(ts) + 2) :
        n # otherRef /\ \A t \in ts : t.id # n

\* The debounce effect of one search field, run because its term changed:
\* cleanup of the previous run (clearTimeout), then clearTimeout again and
\* setTimeout(() => setDebounced...(term), 300); the ref keeps the new id.
DebounceEffect(ts, ref, otherRef, field, term) ==
    LET cleared == ClearTimeout(ClearTimeout(ts, ref), ref)
        id == FreshId(cleared, otherRef)
    IN [timers |-> cleared \cup
                     {[id |-> id, field |-> field, term |-> term, left |-> DebounceMs]},
        ref |-> id,
        cancelled |-> {t.term : t \in ts \ cleared}]

\* history record of a step
Op(name) == [name |-> name, cancelled |-> {}]

\* effects of a render in which the search box changed from old to new
SearchEffect(new) ==
    IF new # searchTerm
    THEN LET r == DebounceEffect(timers, searchTimeoutRef, emailSearchTimeoutRef,
                                 "search", new)
         IN timers' = r.timers /\ searchTimeoutRef' = r.ref
            /\ UNCHANGED emailSearchTimeoutRef
            /\ lastOp' = [name |-> "setSearchTerm", cancelled |-> r.cancelled]
    ELSE UNCHANGED timerVars /\ lastOp' = Op("setSearchTerm")

EmailEffect(new) ==
    IF new # emailSearchTerm
    THEN LET r == DebounceEffect(timers, emailSearchTimeoutRef, searchTimeoutRef,
                                 "email", new)
         IN timers' = r.timers /\ emailSearchTimeoutRef' = r.ref
            /\ UNCHANGED searchTimeoutRef
    ELSE UNCHANGED timerVars

\* ------------------------------------------------------------ construction
\* no add / edit form is on screen
FormUnmounted == form = [page |-> "none"]

\* the dashboard is not on screen
DashboardUnmounted == dashboard = [mounted |-> FALSE]

\* useState of the delete confirmation modal
ModalClosed == [isOpen |-> FALSE, schedule |-> None]

\* the hook is used without its page
ListPageUnused ==
    listPage = [deleteModal |-> ModalClosed, isDeleting |-> FALSE, awaiting |-> "none",
                sent |-> None, backend |-> 0]

\* the wizard is not on screen
WizardUnmounted == wizard = [mounted |-> FALSE]

\* authService has not been called and nothing is stored
AuthUnused ==
    auth = [started |-> FALSE, token |-> None, inflight |-> {}, lastOp |-> "none",
            response |-> None, result |-> "none"]

\* none of the other pages is on screen
PagesUnmounted ==
    FormUnmounted /\ DashboardUnmounted /\ ListPageUnused /\ WizardUnmounted /\ AuthUnused

\* the schedules overview page is not on screen
GanttUnmounted ==
    /\ currentStartDate = 0
    /\ daysToShow = 0
    /\ ganttItems = <<>>
    /\ parseThrows = FALSE
    /\ today = 0
    /\ chart = [raised |-> FALSE, bars |-> <<>>]

\* State after the first render and its effects: the debounce effect(s) have
\* scheduled a timer for the initial (empty) term and the fetch effect has
\* sent the first request.
HookMounted(h) ==
    LET i == InitialState(h) IN
    /\ hook = h
    /\ mounted = TRUE
    /\ searchTerm = i.search
    /\ emailSearchTerm = ""
    /\ statusFilters = i.status
    /\ sortBy = i.sortBy
    /\ sortOrder = i.sortOrder
    /\ currentPage = i.page
    /\ itemsPerPage = i.limit
    /\ debouncedSearchTerm = i.search
    /\ debouncedEmailSearchTerm = ""
    /\ timers = {[id |-> 1, field |-> "search", term |-> i.search, left |-> DebounceMs]}
                \cup (IF h = "drivers"
                      THEN {[id |-> 2, field |-> "email", term |-> "", left |-> DebounceMs]}
                      ELSE {})
    /\ searchTimeoutRef = 1
    /\ emailSearchTimeoutRef = IF h = "drivers" THEN 2 ELSE 0
    /\ inflight = <<QueryParams>>
    /\ items = <<>>
    /\ totalCount = 0
    /\ totalPages = 0
    /\ hasNextPage = FALSE
    /\ hasPreviousPage = FALSE
    /\ loading = TRUE
    /\ error = Null
    /\ lastOp = Op("mount")

\* a hook mounted on its own
InitFor(h) == PagesUnmounted /\ GanttUnmounted /\ HookMounted(h)

Init == \E h \in Hooks : InitFor(h)

\* ----------------------------------------------------------------- actions
\* variant: setSearchTerm that leaves the page alone until the commit
SetSearchTermKeepsPage(term) ==
    /\ mounted
    /\ searchTerm' = term
    /\ SearchEffect(term)
    /\ UNCHANGED <<pageVars, ganttVars, hook, mounted, emailSearchTerm, statusFilters, sortBy, sortOrder,
                   currentPage, itemsPerPage, debounceVars, dataVars>>
    /\ FetchEffect(FALSE)

\* setSearchTerm(term)
SetSearchTerm(term) ==
    /\ mounted
    /\ searchTerm' = term
    /\ currentPage' = 1
    /\ SearchEffect(term)
    /\ UNCHANGED <<pageVars, ganttVars, hook, mounted, emailSearchTerm, statusFilters, sortBy, sortOrder,
                   itemsPerPage, debounceVars, dataVars>>
    /\ FetchEffect(FALSE)

\* setEmailSearchTerm(term)  (useDriversData only)
SetEmailSearchTerm(term) ==
    /\ mounted
    /\ lastOp' = Op("setEmailSearchTerm")
    /\ hook = "drivers"
    /\ emailSearchTerm' = term
    /\ currentPage' = 1
    /\ EmailEffect(term)
    /\ UNCHANGED <<pageVars, ganttVars, hook, mounted, searchTerm, statusFilters, sortBy, sortOrder,
                   itemsPerPage, debounceVars, dataVars>>
    /\ FetchEffect(FALSE)

\* variant: an updater that never removes
ToggleFilterAppends(prev, status) == Append(prev, status)

\* the updater of toggleStatusFilter: remove the status if present, else append
ToggleFilter(prev, status) ==
    IF Includes(prev, status) THEN Without(prev, status) ELSE Append(prev, status)

\* toggleStatusFilter(status)  (schedules and maintenance orders)
ToggleStatusFilter(status) ==
    /\ mounted
    /\ lastOp' = Op("toggleStatusFilter")
    /\ hook # "drivers"
    /\ statusFilters' = ToggleFilter(statusFilters, status)
    /\ currentPage' = 1
    /\ UNCHANGED <<pageVars, ganttVars, hook, mounted, searchTerm, emailSearchTerm, sortBy, sortOrder,
                   itemsPerPage, debounceVars, timerVars, dataVars>>
    /\ FetchEffect(TRUE)

\* variant: every hook clears to the filters it starts with
ClearedFiltersInitial(h) == InitialState(h).status

\* variant: every hook clears to the empty filter array
ClearedFiltersEmpty(h) == <<>>

\* the filter array clearStatusFilters / clearAllFilters install
ClearedFilters(h) ==
    IF h = "schedules" THEN <<"active", "scheduled">> ELSE <<>>

\* clearStatusFilters()  (schedules and maintenance orders)
ClearStatusFilters ==
    /\ mounted
    /\ lastOp' = Op("clearStatusFilters")
    /\ hook # "drivers"
    /\ statusFilters' = ClearedFilters(hook)
    /\ currentPage' = 1
    /\ UNCHANGED <<pageVars, ganttVars, hook, mounted, searchTerm, emailSearchTerm, sortBy, sortOrder,
                   itemsPerPage, debounceVars, timerVars, dataVars>>
    /\ FetchEffect(TRUE)

\* variant: a new column keeps the direction of the old one
NextSortKeepsOrder(by, order, column) ==
    IF by = column
    THEN [sortBy |-> by, sortOrder |-> IF order = "asc" THEN "desc" ELSE "asc"]
    ELSE [sortBy |-> column, sortOrder |-> order]

\* sort state after setSorting(column)
NextSort(by, order, column) ==
    IF by = column
    THEN [sortBy |-> by, sortOrder |-> IF order = "asc" THEN "desc" ELSE "asc"]
    ELSE [sortBy |-> column, sortOrder |-> "asc"]

\* setSorting(column)
SetSorting(column) ==
    /\ mounted
    /\ lastOp' = Op("setSorting")
    /\ sortBy' = NextSort(sortBy, sortOrder, column).sortBy
    /\ sortOrder' = NextSort(sortBy, sortOrder, column).sortOrder
    /\ currentPage' = 1
    /\ UNCHANGED <<pageVars, ganttVars, hook, mounted, searchTerm, emailSearchTerm, statusFilters,
                   itemsPerPage, debounceVars, timerVars, dataVars>>
    /\ FetchEffect(FALSE)

\* page stored by setCurrentPage(page)
PageAfterSet(page) == page

\* setCurrentPage(page)
SetCurrentPage(page) ==
    /\ mounted
    /\ lastOp' = Op("setCurrentPage")
    /\ currentPage' = PageAfterSet(page)
    /\ UNCHANGED <<pageVars, ganttVars, hook, mounted, searchTerm, emailSearchTerm, statusFilters, sortBy,
                   sortOrder, itemsPerPage, debounceVars, timerVars, dataVars>>
    /\ FetchEffect(FALSE)

\* DriverTable.handlePageChange(page): forwards in-range pages only
HandlePageChange(page) ==
    IF page >= 1 /\ page <= totalPages
    THEN SetCurrentPage(page)
    ELSE /\ mounted
         /\ lastOp' = Op("handlePageChange")
         /\ UNCHANGED <<pageVars, ganttVars, hook, mounted, queryVars, debounceVars, timerVars, dataVars,
                        fetchVars>>

\* variant: setItemsPerPage that keeps the page
SetItemsPerPageKeepsPage(limit) ==
    /\ mounted
    /\ lastOp' = Op("setItemsPerPage")
    /\ itemsPerPage' = limit
    /\ UNCHANGED <<pageVars, ganttVars, hook, mounted, searchTerm, emailSearchTerm, statusFilters, sortBy,
                   sortOrder, currentPage, debounceVars, timerVars, dataVars>>
    /\ FetchEffect(FALSE)

\* setItemsPerPage(limit)
SetItemsPerPage(limit) ==
    /\ mounted
    /\ lastOp' = Op("setItemsPerPage")
    /\ itemsPerPage' = limit
    /\ currentPage' = 1
    /\ UNCHANGED <<pageVars, ganttVars, hook, mounted, searchTerm, emailSearchTerm, statusFilters, sortBy,
                   sortOrder, debounceVars, timerVars, dataVars>>
    /\ FetchEffect(FALSE)

\* query state installed by clearAllFilters()
ClearedQuery(h) ==
    [search |-> "", email |-> "", status |-> ClearedFilters(h),
     sortBy |-> IF h = "drivers" THEN Null ELSE "startDate",
     sortOrder |-> IF h = "drivers" THEN "asc" ELSE "desc",
     page |-> 1]

\* clearAllFilters(): one batched update; the filter array is replaced in the
\* schedules and maintenance-orders hooks (the drivers hook has none)
ClearAllFilters ==
    LET c == ClearedQuery(hook)
        s == IF c.search # searchTerm
             THEN DebounceEffect(timers, searchTimeoutRef, emailSearchTimeoutRef,
                                 "search", c.search)
             ELSE [timers |-> timers, ref |-> searchTimeoutRef, cancelled |-> {}]
        e == IF hook = "drivers" /\ c.email # emailSearchTerm
             THEN DebounceEffect(s.timers, emailSearchTimeoutRef, s.ref, "email", c.email)
             ELSE [timers |-> s.timers, ref |-> emailSearchTimeoutRef, cancelled |-> {}]
    IN
    /\ mounted
    /\ lastOp' = [name |-> "clearAllFilters", cancelled |-> s.cancelled]
    /\ searchTerm' = c.search
    /\ emailSearchTerm' = IF hook = "drivers" THEN c.email ELSE emailSearchTerm
    /\ statusFilters' = IF hook = "drivers" THEN statusFilters ELSE c.status
    /\ sortBy' = c.sortBy
    /\ sortOrder' = c.sortOrder
    /\ currentPage' = c.page
    /\ timers' = e.timers
    /\ searchTimeoutRef' = s.ref
    /\ emailSearchTimeoutRef' = e.ref
    /\ UNCHANGED <<pageVars, ganttVars, hook, mounted, itemsPerPage, debounceVars, dataVars>>
    /\ FetchEffect(hook # "drivers")

\* refreshData(): await fetchData() with the query of the current render
RefreshData ==
    /\ mounted
    /\ lastOp' = Op("refreshData")
    /\ UNCHANGED <<pageVars, ganttVars, hook, mounted, queryVars, debounceVars, timerVars, dataVars>>
    /\ IssueFetch

\* the clock advances by TickMs while a timer is still waiting
Tick ==
    /\ \E t \in timers : t.left > 0
    /\ timers' = {[t EXCEPT !.left = Max(0, t.left - TickMs)] : t \in timers}
    /\ lastOp' = Op("tick")
    /\ UNCHANGED <<pageVars, ganttVars, hook, mounted, queryVars, debounceVars, searchTimeoutRef,
                   emailSearchTimeoutRef, dataVars, fetchVars>>

\* a timer's callback runs: setDebouncedSearchTerm(term) or
\* setDebouncedEmailSearchTerm(term) with the term the effect closed over
DebounceTimeout ==
    \E t \in timers :
        /\ t.left = 0
        /\ timers' = timers \ {t}
        /\ lastOp' = Op("debounceTimeout")
        /\ debouncedSearchTerm' =
               IF mounted /\ t.field = "search" THEN t.term ELSE debouncedSearchTerm
        /\ debouncedEmailSearchTerm' =
               IF mounted /\ t.field = "email" THEN t.term ELSE debouncedEmailSearchTerm
        /\ UNCHANGED <<pageVars, ganttVars, hook, mounted, queryVars, searchTimeoutRef,
                       emailSearchTimeoutRef, dataVars>>
        /\ FetchEffect(FALSE)

\* what the list endpoint answers to request req when totalPages is tp
PaginatedResponse(req, tp) ==
    [items |-> <<req.page>>,     \* the rows of the page asked for
     totalCount |-> tp * req.limit,
     totalPages |-> tp,
     hasNextPage |-> req.page < tp,
     hasPreviousPage |-> req.page > 1]

\* May the response of the i-th pending request update the visible state?
\* fetchData applies every response it awaits.
Applies(i) == TRUE

\* fetchData after its await, request i resolved with totalPages tp
FetchSucceeded(i, tp) ==
    LET r == PaginatedResponse(inflight[i], tp) IN
    /\ inflight' = RemoveAt(inflight, i)
    /\ IF mounted /\ Applies(i)
       THEN /\ items' = r.items
            /\ totalCount' = r.totalCount
            /\ totalPages' = r.totalPages
            /\ hasNextPage' = r.hasNextPage
            /\ hasPreviousPage' = r.hasPreviousPage
            /\ loading' = FALSE
            /\ UNCHANGED error
       ELSE UNCHANGED <<dataVars, loading, error>>
    /\ lastOp' = Op("fetchSucceeded")
    /\ UNCHANGED <<pageVars, ganttVars, hook, mounted, queryVars, debounceVars, timerVars>>

\* variant: a failed request records the message but keeps the shown rows
FetchFailedKeepsRows(i) ==
    /\ inflight' = RemoveAt(inflight, i)
    /\ IF mounted /\ Applies(i)
       THEN /\ error' = FetchFailed
            /\ loading' = FALSE
            /\ UNCHANGED dataVars
       ELSE UNCHANGED <<dataVars, loading, error>>
    /\ lastOp' = Op("fetchFailed")
    /\ UNCHANGED <<pageVars, ganttVars, hook, mounted, queryVars, debounceVars, timerVars>>

\* fetchData's catch branch, request i rejected
FetchFailedWith(i) ==
    /\ inflight' = RemoveAt(inflight, i)
    /\ IF mounted /\ Applies(i)
       THEN /\ error' = FetchFailed
            /\ items' = <<>>
            /\ totalCount' = 0
            /\ totalPages' = 0
            /\ hasNextPage' = FALSE
            /\ hasPreviousPage' = FALSE
            /\ loading' = FALSE
       ELSE UNCHANGED <<dataVars, loading, error>>
    /\ lastOp' = Op("fetchFailed")
    /\ UNCHANGED <<pageVars, ganttVars, hook, mounted, queryVars, debounceVars, timerVars>>

\* a pending request completes, in any order
Response ==
    \E i \in 1 .. Len(inflight) :
        \/ \E tp \in 0 .. MaxPage : FetchSucceeded(i, tp)
        \/ FetchFailedWith(i)

\* the component unmounts: the cleanup of each debounce effect runs
Unmount ==
    /\ mounted
    /\ lastOp' = Op("unmount")
    /\ mounted' = FALSE
    /\ timers' = ClearTimeout(ClearTimeout(timers, searchTimeoutRef),
                              emailSearchTimeoutRef)
    /\ UNCHANGED <<pageVars, ganttVars, hook, queryVars, debounceVars, searchTimeoutRef,
                   emailSearchTimeoutRef, dataVars, fetchVars>>

\* ---------------------------------------------------------- specifications
Next ==
    \/ \E t \in Terms : SetSearchTerm(t)
    \/ \E t \in EmailTerms : SetEmailSearchTerm(t)
    \/ \E s \in StatusInputs : ToggleStatusFilter(s)
    \/ ClearStatusFilters
    \/ \E c \in SortInputs(hook) : SetSorting(c)
    \/ \E n \in PageInputs : hook # "drivers" /\ SetCurrentPage(n)
    \/ \E n \in PageInputs : hook = "drivers" /\ HandlePageChange(n)
    \/ \E l \in LimitInputs(hook) : SetItemsPerPage(l)
    \/ ClearAllFilters
    \/ RefreshData
    \/ Tick
    \/ DebounceTimeout
    \/ Response
    \/ Unmount

Spec == Init /\ [][Next]_vars

\* An unhurried user: every handler runs while no request is pending, so each
\* request is answered before the next one is sent.
Idle == inflight = <<>>

NextSettled ==
    \/ Idle /\ \E t \in Terms : SetSearchTerm(t)
    \/ Idle /\ \E t \in EmailTerms : SetEmailSearchTerm(t)
    \/ Idle /\ \E s \in StatusInputs : ToggleStatusFilter(s)
    \/ Idle /\ ClearStatusFilters
    \/ Idle /\ \E c \in SortInputs(hook) : SetSorting(c)
    \/ Idle /\ \E n \in PageInputs : hook # "drivers" /\ SetCurrentPage(n)
    \/ Idle /\ \E n \in PageInputs : hook = "drivers" /\ HandlePageChange(n)
    \/ Idle /\ \E l \in LimitInputs(hook) : SetItemsPerPage(l)
    \/ Idle /\ ClearAllFilters
    \/ Idle /\ RefreshData
    \/ Tick
    \/ Idle /\ DebounceTimeout
    \/ Response
    \/ Unmount

SpecSettled == Init /\ [][NextSettled]_vars

\* Overlapping requests: pages are changed and the list is refreshed while
\* earlier requests are still pending.
NextRace ==
    \/ \E n \in PageInputs : hook # "drivers" /\ SetCurrentPage(n)
    \/ \E n \in PageInputs : hook = "drivers" /\ HandlePageChange(n)
    \/ \E s \in StatusInputs : ToggleStatusFilter(s)
    \/ \E c \in SortInputs(hook) : SetSorting(c)
    \/ RefreshData
    \/ Response

SpecRace == Init /\ [][NextRace]_vars

\* ------------------------------------------------------------------ claims
\* a step sends a list request; NewRequest is its query params
Sent == Len(inflight') = Len(inflight) + 1
NewRequest == inflight'[Len(inflight')]

PendingTimers(field) == {t \in timers : t.field = field}

\* C1: once no request is pending (and the last applied response was a
\* success), the visible rows and pagination flags are those of the latest
\* request, i.e. of the current page - whatever order the responses came in.
C1_LatestResultShown ==
    (mounted /\ Idle /\ error = Null /\ currentPage >= 1) =>
        /\ items = <<currentPage>>
        /\ hasPreviousPage = (currentPage > 1)
        /\ hasNextPage = (currentPage < totalPages)

\* C2: setSearchTerm, toggleStatusFilter, setSorting and setItemsPerPage
\* leave the page at 1 from every prior state, and a step that moves the
\* page to a value other than 1 is a setCurrentPage.
C2_PageReset ==
    [][ /\ lastOp'.name \in {"setSearchTerm", "toggleStatusFilter", "setSorting",
                             "setItemsPerPage"} => currentPage' = 1
        /\ (currentPage' # currentPage /\ currentPage' # 1)
               => lastOp'.name = "setCurrentPage" ]_vars

\* setItemsPerPage has just reset the page while the rows of page 2 are shown
C2_Witness ==
    /\ lastOp.name = "setItemsPerPage"
    /\ items = <<2>>
    /\ totalPages = 2
    /\ currentPage = 1
    /\ Len(inflight) = 1 /\ inflight[1].page = 1

\* C3: clearAllFilters is atomic for the fetch it triggers: a request sent by
\* a clearAllFilters step carries the cleared search term(s), never the
\* still-committed previous one together with the cleared filters and sort.
C3_ClearAllAtomic ==
    [][ (lastOp'.name = "clearAllFilters" /\ Sent)
            => NewRequest.search = None /\ NewRequest.emailSearch = None ]_vars

\* C4: the committed search term changes only when the timer scheduled by
\* the latest change of the search box expires after its full wait, and the
\* value committed is the one in the box; every request sent carries the
\* committed term.  So a value replaced while its timer was still waiting is
\* never committed nor sent.
C4_OnlyQuietTermFetched ==
    [][ /\ debouncedSearchTerm' # debouncedSearchTerm =>
              /\ lastOp'.name = "debounceTimeout"
              /\ debouncedSearchTerm' = searchTerm
              /\ \E t \in timers \ timers' :
                     /\ t.id = searchTimeoutRef /\ t.field = "search"
                     /\ t.term = searchTerm /\ t.left = 0
        /\ Sent => NewRequest.search = OrUndefined(debouncedSearchTerm') ]_vars

\* "a" was typed and cleared again while its timer was still waiting; it is
\* neither committed nor part of a pending request
C4_Witness ==
    /\ lastOp.name = "setSearchTerm"
    /\ lastOp.cancelled = {"a"}
    /\ searchTerm = ""
    /\ debouncedSearchTerm = ""
    /\ \A i \in 1 .. Len(inflight) : inflight[i].search = None

\* C5 as stated: setSearchTerm neither resets the page nor sends a request;
\* the page is reset when the term is committed, and the request sent then
\* has search = term and page = 1.
C5_ResetAtCommit ==
    [][ /\ lastOp'.name = "setSearchTerm" => (currentPage' = currentPage /\ ~Sent)
        /\ debouncedSearchTerm' # debouncedSearchTerm =>
              /\ currentPage' = 1
              /\ Sent /\ NewRequest.search = OrUndefined(searchTerm)
              /\ NewRequest.page = 1 ]_vars

\* C5 amended: setSearchTerm updates the term and resets the page to 1 at
\* once without committing the term; if the page was not 1 this sends a
\* request at once, for page 1 and the previously committed term.  The term
\* is committed when the timer of the latest change expires; the commit keeps
\* the page and sends a request with search = term and the current page.
C5_ResetAtOnce ==
    [][ /\ lastOp'.name = "setSearchTerm" =>
              /\ currentPage' = 1
              /\ debouncedSearchTerm' = debouncedSearchTerm
              /\ searchTerm' # searchTerm =>
                     \E t \in timers' : /\ t.id = searchTimeoutRef'
                                        /\ t.term = searchTerm'
                                        /\ t.left = DebounceMs
              /\ Sent <=> currentPage # 1
              /\ Sent => /\ NewRequest.page = 1
                         /\ NewRequest.search = OrUndefined(debouncedSearchTerm)
        /\ debouncedSearchTerm' # debouncedSearchTerm =>
              /\ lastOp'.name = "debounceTimeout"
              /\ debouncedSearchTerm' = searchTerm
              /\ currentPage' = currentPage
              /\ Sent /\ NewRequest.search = OrUndefined(searchTerm)
              /\ NewRequest.page = currentPage ]_vars

\* "a" has just been typed on page 2: the page is 1 again and the request
\* for page 1 went out with the old (empty) committed term
C5_Witness ==
    /\ lastOp.name = "setSearchTerm"
    /\ searchTerm = "a" /\ debouncedSearchTerm = ""
    /\ items = <<2>>
    /\ currentPage = 1
    /\ Len(inflight) = 1
    /\ inflight[1].page = 1 /\ inflight[1].search = None

\* C6: once totalPages is known from a response, asking for a page n < 1 or
\* n > totalPages changes neither the page nor sends a request.
C6_OutOfRangePageIgnored ==
    [][ \A n \in PageInputs :
          ( /\ error = Null /\ items # <<>>
            /\ (n < 1 \/ n > totalPages)
            /\ (SetCurrentPage(n) \/ HandlePageChange(n)) )
          => (currentPage' = currentPage /\ ~Sent) ]_vars

\* C7: per search field at most one timer is waiting, it is the one the ref
\* holds and it carries the field's current term; none waits after unmount.
\* A cancelled timer is therefore never among those that can expire.
C7_OneDebounceTimer ==
    /\ \A f \in {"search", "email"} :
          /\ Cardinality(PendingTimers(f)) <= 1
          /\ \A t \in PendingTimers(f) :
                 /\ t.id = (IF f = "search" THEN searchTimeoutRef
                                            ELSE emailSearchTimeoutRef)
                 /\ t.term = (IF f = "search" THEN searchTerm ELSE emailSearchTerm)
    /\ ~mounted => timers = {}

\* a change of the search box has just cancelled a waiting timer and left
\* exactly one waiting
C7_Witness ==
    /\ lastOp.name = "setSearchTerm"
    /\ lastOp.cancelled # {}
    /\ Cardinality(PendingTimers("search")) = 1
    /\ \E t \in PendingTimers("search") : t.left = DebounceMs

\* C8: toggling the same status twice gives back the same filter set, and a
\* toggle leaves the page at 1 (so does the second one).
C8_ToggleTwice ==
    /\ \A v \in StatusInputs :
          LET once == ToggleFilter(statusFilters, v)
              twice == ToggleFilter(once, v)
          IN /\ SetOf(twice) = SetOf(statusFilters)
             /\ Len(twice) = Len(statusFilters)
             /\ SetOf(once) # SetOf(statusFilters)
    /\ lastOp.name = "toggleStatusFilter" => currentPage = 1

\* "active" was switched off and on again in the schedules hook: the same
\* set as at the start (in another order), page 1
C8_Witness ==
    /\ hook = "schedules"
    /\ lastOp.name = "toggleStatusFilter"
    /\ statusFilters = <<"scheduled", "active">>
    /\ currentPage = 1

\* C9: setSorting(column) flips the direction and keeps the column when
\* column is the current sort column, otherwise sorts by column ascending;
\* the page becomes 1 either way.
C9_SetSorting ==
    [][ \A c \in SortInputs(hook) :
          SetSorting(c) =>
            /\ IF sortBy = c
               THEN /\ sortBy' = sortBy
                    /\ sortOrder' # sortOrder
                    /\ sortOrder' \in {"asc", "desc"}
               ELSE /\ sortBy' = c
                    /\ sortOrder' = "asc"
            /\ currentPage' = 1 ]_vars

\* "status" was pressed twice: ascending, then flipped to descending
C9_Witness ==
    /\ lastOp.name = "setSorting"
    /\ sortBy = "status"
    /\ sortOrder = "desc"
    /\ currentPage = 1

\* C10: in the schedules hook clearAllFilters leaves the filters
\* {active, scheduled}, an empty search term, the default sort
\* (startDate, desc) and page 1.
C10_SchedulesClearAll ==
    (hook = "schedules" /\ lastOp.name = "clearAllFilters") =>
        /\ SetOf(statusFilters) = {"active", "scheduled"}
        /\ Len(statusFilters) = 2
        /\ searchTerm = ""
        /\ sortBy = "startDate" /\ sortOrder = "desc"
        /\ currentPage = 1

\* clearAllFilters ran in the schedules hook with "a" committed, on page 2
C10_Witness ==
    /\ hook = "schedules"
    /\ lastOp.name = "clearAllFilters"
    /\ debouncedSearchTerm = "a"
    /\ items = <<2>>
    /\ currentPage = 1

\* C11: clearAllFilters leaves no status filter in the maintenance-orders
\* and drivers hooks (for maintenance orders the empty array, not the three
\* filters the hook starts with) and {active, scheduled} in the schedules hook.
C11_ClearAllPerEntity ==
    lastOp.name = "clearAllFilters" =>
        CASE hook = "schedules" -> SetOf(statusFilters) = {"active", "scheduled"}
          [] hook = "orders"    -> /\ statusFilters = <<>>
                                   /\ statusFilters # InitialState("orders").status
          [] hook = "drivers"   -> statusFilters = <<>>

\* clearAllFilters ran in the maintenance-orders hook; the request it sent
\* carries no status filter
C11_Witness ==
    /\ hook = "orders"
    /\ lastOp.name = "clearAllFilters"
    /\ statusFilters = <<>>
    /\ Len(inflight) = 1 /\ inflight[1].status = None

\* C19: a failed list request leaves the message in error, no rows,
\* totalCount = totalPages = 0, both page flags false and loading false;
\* refreshData then sends the unchanged query again (clearing the error and
\* showing the loading state), and a request that succeeds shows its rows
\* and leaves the error as it is, so clear after the retry.
C19_RecoverableError ==
    [][ /\ (lastOp'.name = "fetchFailed" /\ mounted) =>
              /\ error' = FetchFailed
              /\ items' = <<>> /\ totalCount' = 0 /\ totalPages' = 0
              /\ ~hasNextPage' /\ ~hasPreviousPage'
              /\ ~loading'
        /\ lastOp'.name = "refreshData" =>
              /\ queryVars' = queryVars /\ debounceVars' = debounceVars
              /\ Sent /\ NewRequest = QueryParams
              /\ error' = Null /\ loading'
        /\ (lastOp'.name = "fetchSucceeded" /\ mounted) =>
              /\ error' = error /\ ~loading'
              /\ \E i \in 1 .. Len(inflight) :
                     /\ inflight' = RemoveAt(inflight, i)
                     /\ items' = <<inflight[i].page>>
                     /\ totalCount' = totalPages' * inflight[i].limit
        /\ (lastOp'.name = "fetchSucceeded" /\ mounted /\ lastOp.name = "refreshData"
              /\ Len(inflight) = 1) => error' = Null ]_vars

\* refreshData has just run in the error state a failed request left (no
\* rows, no pages): the error is cleared and the same query is on its way
C19_Witness ==
    /\ mounted
    /\ lastOp.name = "refreshData"
    /\ error = Null /\ loading
    /\ items = <<>> /\ totalCount = 0 /\ totalPages = 0
    /\ Len(inflight) = 1 /\ inflight[1] = QueryParams

\* C20: while a list request is awaiting its response the loading flag is
\* true, also when two requests overlap.
C20_LoadingWhileInFlight ==
    (mounted /\ inflight # <<>>) => loading

\* ============================================================ Gantt chart
\* Schedules overview page (SchedulesOverviewPage.tsx) and GanttChart
\* (components/DateNavigationModal.tsx, second module of the file).
\* A Date is an instant, counted in thirds of a day: start of day, some time
\* during the day, end of day.  A date string is Some(day), or None when it
\* is malformed; an Invalid Date (NaN) is None as well.

MaxItems == 3            \* items in the list handed to the chart
MaxDay == 21             \* calendar days are 0 .. MaxDay

DayParts == 3
StartOfDay == 0
DuringDay == 1
EndOfDay == 2

DAY_WIDTH_PX == 120
ITEM_HEIGHT == 24
ITEM_MARGIN == 4
MinItemWidthPx == 20     \* Math.max(20, ...)
ItemGapPx == 2           \* visibleDays * DAY_WIDTH_PX - 2

Vehicles == {"v1", "v2"}
Days == 0 .. MaxDay
DaysToShowOptions == {7, 14, 30}

Instant(day, part) == day * DayParts + part
DayOf(t) == t \div DayParts

\* dateUtils (not part of the sources at hand)
ParseDate(str) == IF str = None THEN None ELSE Some(Instant(str[1], StartOfDay))
ParseDateEnd(str) == IF str = None THEN None ELSE Some(Instant(str[1], EndOfDay))
AddDaysToDate(t, n) == t + n * DayParts
GetDaysBetweenDates(a, b) ==
    IF a = None \/ b = None THEN None ELSE Some(DayOf(b[1]) - DayOf(a[1]) + 1)

\* JS: a comparison with NaN is false; arithmetic on NaN is NaN
Before(a, b) == a # None /\ b # None /\ a[1] < b[1]
MathMax(n, x) == IF x = None THEN None ELSE Some(Max(n, x[1]))
Minus(x, n) == IF x = None THEN None ELSE Some(x[1] - n)
Times(x, n) == IF x = None THEN None ELSE Some(x[1] * n)

\* variant: only items that end before the window are left out
OutsideRangeBeforeOnly(itemStartDate, itemEndDate, chartStartDate, chartEndDate) ==
    Before(itemEndDate, chartStartDate)

\* itemEndDate < chartStartDate || itemStartDate > chartEndDate
OutsideRange(itemStartDate, itemEndDate, chartStartDate, chartEndDate) ==
    Before(itemEndDate, chartStartDate) \/ Before(chartEndDate, itemStartDate)

\* variant: the start is not clipped to the window
VisibleStartDateUnclipped(itemStartDate, chartStartDate) == itemStartDate

VisibleStartDate(itemStartDate, chartStartDate) ==
    IF Before(itemStartDate, chartStartDate) THEN chartStartDate ELSE itemStartDate

VisibleEndDate(itemEndDate, chartEndDate) ==
    IF Before(chartEndDate, itemEndDate) THEN chartEndDate ELSE itemEndDate

\* variant: the inclusive count is used as the offset
DaysFromStartInclusive(chartStartDate, visibleStartDate) ==
    GetDaysBetweenDates(chartStartDate, visibleStartDate)

DaysFromStart(chartStartDate, visibleStartDate) ==
    Minus(GetDaysBetweenDates(chartStartDate, visibleStartDate), 1)

\* variant: no minimum width
ItemWidthNoMinimum(visibleDays) == Minus(Times(visibleDays, DAY_WIDTH_PX), ItemGapPx)

ItemWidth(visibleDays) ==
    MathMax(MinItemWidthPx, Minus(Times(visibleDays, DAY_WIDTH_PX), ItemGapPx))

\* calculateItemPosition(item): None is null
CalculateItemPosition(item, startDate, days) ==
    LET itemStartDate == ParseDate(item.startDate)
        itemEndDate == ParseDateEnd(item.endDate)
        chartStartDate == Some(startDate)
        chartEndDate == Some(AddDaysToDate(startDate, days - 1))
    IN IF OutsideRange(itemStartDate, itemEndDate, chartStartDate, chartEndDate)
       THEN None
       ELSE LET visibleStartDate == VisibleStartDate(itemStartDate, chartStartDate)
                visibleEndDate == VisibleEndDate(itemEndDate, chartEndDate)
                daysFromStart == DaysFromStart(chartStartDate, visibleStartDate)
                visibleDays == GetDaysBetweenDates(visibleStartDate, visibleEndDate)
            IN Some([left  |-> MathMax(0, Times(daysFromStart, DAY_WIDTH_PX)),
                     width |-> ItemWidth(visibleDays)])

\* items.reduce(...): the list indices of a vehicle's items, in list order
ItemsByVehicle(list, vehicleId) ==
    SelectSeq([i \in 1 .. Len(list) |-> i], LAMBDA i : list[i].vehicleId = vehicleId)

\* variant: the index counts only the items drawn before this one
ItemIndexAmongVisible(list, i, startDate, days) ==
    Cardinality({j \in 1 .. (i - 1) :
                    /\ list[j].vehicleId = list[i].vehicleId
                    /\ CalculateItemPosition(list[j], startDate, days) # None})

\* itemIndex of vehicleItems.map((item, itemIndex) => ...), 0-based
ItemIndex(list, i, startDate, days) ==
    LET vehicleItems == ItemsByVehicle(list, list[i].vehicleId)
    IN (CHOOSE k \in 1 .. Len(vehicleItems) : vehicleItems[k] = i) - 1

\* top: ITEM_MARGIN + (itemIndex % 2) * (ITEM_HEIGHT + ITEM_MARGIN)
ItemTop(itemIndex) == ITEM_MARGIN + (itemIndex % 2) * (ITEM_HEIGHT + ITEM_MARGIN)

Malformed(item) == item.startDate = None \/ item.endDate = None

\* one render of GanttChart: raised when a date helper threw; otherwise the
\* bar drawn for each item of the list (None: nothing drawn)
RenderChart(list, startDate, days, throws) ==
    IF throws /\ \E i \in 1 .. Len(list) : Malformed(list[i])
    THEN [raised |-> TRUE, bars |-> <<>>]
    ELSE [raised |-> FALSE,
          bars |-> [i \in 1 .. Len(list) |->
                      LET position == CalculateItemPosition(list[i], startDate, days)
                      IN IF position = None
                         THEN None
                         ELSE Some([left  |-> position[1].left,
                                    width |-> position[1].width,
                                    top   |-> ItemTop(ItemIndex(list, i, startDate, days))])]]

\* ------------------------------------------------- overview page: inputs
TodayInputs == {7, 10}
DateEntryInputs == {Some(3), Some(10), None}      \* text typed as start date
TimeZones == {"west", "utc", "east"}              \* of the device

\* one item with any pair of dates (also end before start, also malformed)
WideItems ==
    {[vehicleId |-> "v1", startDate |-> s, endDate |-> e] :
        s \in {Some(d) : d \in Days} \cup {None},
        e \in {Some(d) : d \in Days} \cup {None}}

\* items of a row that do and do not overlap, around the first windows
RowItems ==
    {[vehicleId |-> "v1", startDate |-> Some(6),  endDate |-> Some(8)],
     [vehicleId |-> "v1", startDate |-> Some(8),  endDate |-> Some(12)],
     [vehicleId |-> "v1", startDate |-> Some(13), endDate |-> Some(20)],
     [vehicleId |-> "v2", startDate |-> Some(8),  endDate |-> Some(12)],
     [vehicleId |-> "v1", startDate |-> None,     endDate |-> Some(9)],
     [vehicleId |-> "v2", startDate |-> Some(9),  endDate |-> None]}

RECURSIVE ListsOf(_, _)
ListsOf(S, n) ==
    IF n = 0 THEN {<<>>}
    ELSE LET shorter == ListsOf(S, n - 1)
         IN shorter \cup {Append(l, x) : l \in {m \in shorter : Len(m) = n - 1}, x \in S}

ItemLists == {<<x>> : x \in WideItems} \cup ListsOf(RowItems, MaxItems)

\* the list hooks are not on screen
ListUnmounted ==
    /\ hook = "schedules"
    /\ mounted = FALSE
    /\ searchTerm = "" /\ emailSearchTerm = ""
    /\ statusFilters = <<>>
    /\ sortBy = Null /\ sortOrder = "asc"
    /\ currentPage = 1 /\ itemsPerPage = 10
    /\ debouncedSearchTerm = "" /\ debouncedEmailSearchTerm = ""
    /\ timers = {}
    /\ searchTimeoutRef = 0 /\ emailSearchTimeoutRef = 0
    /\ inflight = <<>>
    /\ items = <<>>
    /\ totalCount = 0 /\ totalPages = 0
    /\ hasNextPage = FALSE /\ hasPreviousPage = FALSE
    /\ loading = FALSE
    /\ error = Null
    /\ lastOp = Op("none")

listVars == <<hook, mounted, queryVars, debounceVars, timerVars, dataVars, fetchVars,
              lastOp>>

\* new Date("yyyy-mm-dd") is midnight UTC: the evening before in a time zone
\* west of Greenwich, during the same day east of it; NaN for other text
NewDate(value, zone) ==
    IF value = None THEN None
    ELSE CASE zone = "utc"  -> Some(Instant(value[1], StartOfDay))
           [] zone = "east" -> Some(Instant(value[1], DuringDay))
           [] zone = "west" -> Some(Instant(value[1] - 1, DuringDay))

\* first render of SchedulesOverviewPage
InitGantt ==
    /\ PagesUnmounted
    /\ ListUnmounted
    /\ parseThrows \in BOOLEAN
    /\ today \in TodayInputs
    /\ currentStartDate = Instant(today, StartOfDay)
    /\ daysToShow = 7
    /\ ganttItems \in ItemLists
    /\ chart = RenderChart(ganttItems, currentStartDate, daysToShow, parseThrows)

\* the page renders again with a new window
Rerender(startDate, days) ==
    /\ currentStartDate' = startDate
    /\ daysToShow' = days
    /\ chart' = RenderChart(ganttItems, startDate, days, parseThrows)
    /\ UNCHANGED <<ganttItems, parseThrows, today, listVars, pageVars>>

\* variant: the window moves back by its own length
GoToPreviousWindow ==
    /\ DayOf(currentStartDate) - daysToShow >= 0
    /\ Rerender(AddDaysToDate(currentStartDate, -daysToShow), daysToShow)

GoToPreviousWeek ==
    /\ DayOf(currentStartDate) - 7 >= 0
    /\ Rerender(AddDaysToDate(currentStartDate, -7), daysToShow)

GoToNextWeek ==
    /\ DayOf(currentStartDate) + 7 <= MaxDay
    /\ Rerender(AddDaysToDate(currentStartDate, 7), daysToShow)

GoToToday == Rerender(Instant(today, StartOfDay), daysToShow)

\* !isNaN(newDate.getTime())
EntryAccepted(newDate) == newDate # None

HandleStartDateChange(value, zone) ==
    LET newDate == NewDate(value, zone)
    IN IF EntryAccepted(newDate)
       THEN Rerender(newDate[1], daysToShow)
       ELSE UNCHANGED vars

HandleDaysToShowChange(newDaysToShow) == Rerender(currentStartDate, newDaysToShow)

NextGantt ==
    \/ GoToPreviousWeek
    \/ GoToNextWeek
    \/ GoToToday
    \/ \E value \in DateEntryInputs, zone \in TimeZones : HandleStartDateChange(value, zone)
    \/ \E n \in DaysToShowOptions : HandleDaysToShowChange(n)

SpecGantt == InitGantt /\ [][NextGantt]_vars

\* ----------------------------------------------------- claims on the chart
WindowFirstDay == DayOf(currentStartDate)
WindowLastDay == DayOf(currentStartDate) + daysToShow - 1
Drawn(i) == ~chart.raised /\ chart.bars[i] # None
Bar(i) == chart.bars[i][1]
StartDay(i) == ganttItems[i].startDate[1]
EndDay(i) == ganttItems[i].endDate[1]
ItemNumbers == 1 .. Len(ganttItems)

\* C12: an item whose dates both lie before the first day of the window, or
\* both after its last day (first day + daysToShow - 1), is not drawn.
C12_OutsideNotDrawn ==
    \A i \in ItemNumbers :
        ( /\ ~Malformed(ganttItems[i])
          /\ \/ (StartDay(i) < WindowFirstDay /\ EndDay(i) < WindowFirstDay)
             \/ (StartDay(i) > WindowLastDay /\ EndDay(i) > WindowLastDay) )
        => ~Drawn(i)

\* an item after the last day of a week's window and one before its first day
C12_Witness ==
    /\ daysToShow = 7
    /\ WindowFirstDay = 14
    /\ ganttItems = <<[vehicleId |-> "v1", startDate |-> Some(6), endDate |-> Some(8)],
                      [vehicleId |-> "v1", startDate |-> Some(8), endDate |-> Some(12)]>>
    /\ chart.bars = <<None, None>>

\* C13: in every render that completes, an item whose range lies inside the
\* window is drawn with left >= 0 and left + width <= daysToShow * DAY_WIDTH_PX.
C13_InsideWithinChart ==
    \A i \in ItemNumbers :
        ( /\ ~chart.raised
          /\ ~Malformed(ganttItems[i])
          /\ WindowFirstDay <= StartDay(i)
          /\ StartDay(i) <= EndDay(i)
          /\ EndDay(i) <= WindowLastDay )
        => /\ Drawn(i)
           /\ Bar(i).left[1] >= 0
           /\ Bar(i).left[1] + Bar(i).width[1] <= daysToShow * DAY_WIDTH_PX

\* a one-day item on the last day of the window ends 2 px before the edge
C13_Witness ==
    /\ daysToShow = 7
    /\ WindowFirstDay = 7
    /\ ganttItems = <<[vehicleId |-> "v1", startDate |-> Some(13), endDate |-> Some(13)]>>
    /\ Drawn(1)
    /\ Bar(1).left = Some(720) /\ Bar(1).width = Some(118)

\* C14: in every render that completes, an item that starts before the
\* window and ends inside it is drawn from the left edge (left = 0) and
\* covers the days from the first day of the window to its own last day.
C14_ClippedAtStart ==
    \A i \in ItemNumbers :
        ( /\ ~chart.raised
          /\ ~Malformed(ganttItems[i])
          /\ StartDay(i) < WindowFirstDay
          /\ WindowFirstDay <= EndDay(i)
          /\ EndDay(i) <= WindowLastDay )
        => /\ Drawn(i)
           /\ Bar(i).left = Some(0)
           /\ Bar(i).width = Some((EndDay(i) - WindowFirstDay + 1) * DAY_WIDTH_PX - ItemGapPx)

\* the scenario of the claim with 2024-06-01 as day 10: the item of days
\* 8 .. 11 in the window of 7 days from day 10 covers two days from left 0
C14_Witness ==
    /\ daysToShow = 7
    /\ currentStartDate = Instant(10, StartOfDay)
    /\ ganttItems = <<[vehicleId |-> "v1", startDate |-> Some(8), endDate |-> Some(11)]>>
    /\ Drawn(1)
    /\ Bar(1).left = Some(0) /\ Bar(1).width = Some(238)

\* C15: every drawn item has left = max(0, (days from the first day of the
\* window to the clipped start, counted inclusively, - 1) * 120) and
\* width = max(20, days from clipped start to clipped end, inclusive,
\* * 120 - 2); the width is positive.
C15_LeftAndWidth ==
    \A i \in ItemNumbers :
        (~Malformed(ganttItems[i]) /\ Drawn(i)) =>
            LET clippedStart == Max(StartDay(i), WindowFirstDay)
                clippedEnd == IF EndDay(i) > WindowLastDay THEN WindowLastDay ELSE EndDay(i)
                inclusive(a, b) == b - a + 1
            IN /\ Bar(i).left[1] =
                      Max(0, (inclusive(WindowFirstDay, clippedStart) - 1) * 120)
               /\ Bar(i).width[1] = Max(20, inclusive(clippedStart, clippedEnd) * 120 - 2)
               /\ Bar(i).width[1] > 0

\* a one-day item in the middle of the window: 118 px wide
C15_Witness ==
    /\ daysToShow = 14
    /\ WindowFirstDay = 3
    /\ ganttItems = <<[vehicleId |-> "v1", startDate |-> Some(5), endDate |-> Some(5)]>>
    /\ Drawn(1)
    /\ Bar(1).left = Some(240) /\ Bar(1).width = Some(118)

C17_SlotFromListOrder ==
    [][ ganttItems' = ganttItems =>
          \A i \in ItemNumbers :
              LET before == Cardinality({j \in 1 .. (i - 1) :
                                ganttItems[j].vehicleId = ganttItems[i].vehicleId})
                  slotTop == ITEM_MARGIN + (before % 2) * (ITEM_HEIGHT + ITEM_MARGIN)
              IN /\ (~chart'.raised /\ chart'.bars[i] # None)
                        => chart'.bars[i][1].top = slotTop
                 /\ (Drawn(i) /\ ~chart'.raised /\ chart'.bars[i] # None)
                        => chart'.bars[i][1].top = Bar(i).top ]_vars

\* after moving the window a week on, the first item of the row is no longer
\* drawn and the second still sits in the second slot
C17_Witness ==
    /\ WindowFirstDay = today + 7
    /\ ganttItems = <<[vehicleId |-> "v1", startDate |-> Some(6), endDate |-> Some(8)],
                      [vehicleId |-> "v1", startDate |-> Some(13), endDate |-> Some(20)]>>
    /\ ~chart.raised
    /\ chart.bars[1] = None
    /\ chart.bars[2] # None /\ Bar(2).top = 32

\* C18: rendering does not raise; an item with a malformed start or end date
\* is not drawn, and every other item gets the left and width it gets when
\* the malformed item is not in the list.
C18_MalformedExcluded ==
    \A i \in ItemNumbers :
        Malformed(ganttItems[i]) =>
            /\ ~chart.raised
            /\ chart.bars[i] = None
            /\ LET rest == RemoveAt(ganttItems, i)
                   alone == RenderChart(rest, currentStartDate, daysToShow, parseThrows)
               IN \A j \in 1 .. Len(rest) :
                      ~Malformed(rest[j]) =>
                          LET k == IF j < i THEN j ELSE j + 1
                          IN IF alone.raised \/ alone.bars[j] = None
                             THEN chart.bars[k] = None
                             ELSE /\ chart.bars[k] # None
                                  /\ Bar(k).left = alone.bars[j][1].left
                                  /\ Bar(k).width = alone.bars[j][1].width

\* ------------------------------------------------------ add and edit forms
FormPages == {"addDriver", "addMaintenanceOrder", "editMaintenanceOrder"}

\* text of a date field: None is '', Some(d) is the yyyy-mm-dd text of day d,
\* NotADate is any other text
NotADate == <<0, 0>>

\* String.prototype.trim on the texts typed here (" " is the only one that
\* has blanks around it)
Trim(s) == IF s = " " THEN "" ELSE s

\* Number(text) on the texts typed here; None is NaN
NumberOf(s) ==
    CASE s \in {"", " "} -> Some(0)
      [] s = "abc"  -> None
      [] s = "-5"   -> Some(-5)
      [] s = "17"   -> Some(17)
      [] s = "30"   -> Some(30)
      [] s = "101"  -> Some(101)
      [] s = "120"  -> Some(120)

\* JS: a comparison with NaN is false
Less(x, n) == x # None /\ x[1] < n
Greater(x, n) == x # None /\ x[1] > n
NotAfter(a, b) == a # None /\ b # None /\ a[1] <= b[1]

\* /^[^\s@]+@[^\s@]+\.[^\s@]+$/ on the texts typed here
ValidateEmail(email) == email = "ann@fleet.io"

\* /^[A-Za-z0-9]{6,20}$/ on the texts typed here
ValidateIdNumber(idNumber) == idNumber = "AB1234"

\* new Date(text) of a date field
FormDate(text, zone) == IF Len(text) # 1 THEN None ELSE NewDate(text, zone)

\* texts that can be typed into a field
FieldInputs(page, name, day) ==
    CASE name = "name"        -> {"", " ", "Ann"}
      [] name = "email"       -> {"", "ann", "ann@fleet.io"}
      [] name = "age"         -> {"", "abc", "17", "30", "101"}
      [] name = "address"     -> {"", "Main St"}
      [] name = "idNumber"    -> {"", "AB12", "AB1234"}
      [] name = "vehicleId"   -> {"", "v1"}
      [] name = "description" -> {"", " ", "Oil change"}
      [] name = "cost"        -> {"", "abc", "-5", "120"}
      [] name \in {"startDate", "estimatedCompletionDate"}
                              -> {None, NotADate, Some(day - 1), Some(day), Some(day + 1)}

FieldNames(page) ==
    IF page = "addDriver"
    THEN {"name", "email", "age", "address", "idNumber"}
    ELSE {"vehicleId", "description", "startDate", "estimatedCompletionDate", "cost"}

\* useState(formData) of the add pages; the edit page fills the form from
\* the order it edits
InitialFormData(page, day) ==
    CASE page = "addDriver" ->
            [name |-> "", email |-> "", age |-> "", address |-> "", idNumber |-> ""]
      [] page = "addMaintenanceOrder" ->
            [vehicleId |-> "", description |-> "", startDate |-> None,
             estimatedCompletionDate |-> None, cost |-> ""]
      [] page = "editMaintenanceOrder" ->
            [vehicleId |-> "v1", description |-> "Oil change", startDate |-> Some(day - 1),
             estimatedCompletionDate |-> Some(day + 1), cost |-> ""]

\* AddDriverPage.validateForm
ValidateDriverForm(formData) ==
    CASE Trim(formData.name) = ""     -> "Driver name is required"
      [] Trim(formData.email) = ""    -> "Email address is required"
      [] Trim(formData.age) = ""      -> "Age is required"
      [] Trim(formData.address) = ""  -> "Address is required"
      [] Trim(formData.idNumber) = "" -> "ID number is required"
      [] OTHER ->
         LET ageValue == NumberOf(formData.age) IN
         CASE ~ValidateEmail(Trim(formData.email)) -> "Please enter a valid email address"
           [] ageValue = None \/ Less(ageValue, 18) \/ Greater(ageValue, 100)
                -> "Age must be between 18 and 100 years"
           [] ~ValidateIdNumber(Trim(formData.idNumber))
                -> "ID number must be 6-20 alphanumeric characters"
           [] OTHER -> Null

\* AddMaintenanceOrderPage.validateForm
ValidateAddOrderForm(formData, zone, day) ==
    CASE formData.vehicleId = ""                -> "Vehicle selection is required"
      [] Trim(formData.description) = ""        -> "Service description is required"
      [] formData.startDate = None              -> "Start date is required"
      [] formData.estimatedCompletionDate = None -> "Estimated completion date is required"
      [] Trim(formData.cost) = ""               -> "Cost is required"
      [] OTHER ->
         LET startDate == FormDate(formData.startDate, zone)
             completionDate == FormDate(formData.estimatedCompletionDate, zone)
             todayMidnight == Some(Instant(day, StartOfDay))
         IN CASE Before(startDate, todayMidnight) -> "Start date cannot be in the past"
              [] NotAfter(completionDate, startDate)
                   -> "Estimated completion date must be after start date"
              [] NumberOf(formData.cost) = None \/ Less(NumberOf(formData.cost), 0)
                   -> "Please enter a valid cost amount"
              [] OTHER -> Null

\* EditMaintenanceOrderPage.validateForm
ValidateEditOrderForm(formData, zone) ==
    CASE formData.vehicleId = ""                -> "Vehicle selection is required"
      [] Trim(formData.description) = ""        -> "Service description is required"
      [] formData.startDate = None              -> "Start date is required"
      [] formData.estimatedCompletionDate = None -> "Estimated completion date is required"
      [] OTHER ->
         LET startDate == FormDate(formData.startDate, zone)
             completionDate == FormDate(formData.estimatedCompletionDate, zone)
         IN CASE NotAfter(completionDate, startDate)
                   -> "Estimated completion date must be after start date"
              [] Trim(formData.cost) # ""
                 /\ (NumberOf(formData.cost) = None \/ Less(NumberOf(formData.cost), 0))
                   -> "Please enter a valid cost amount"
              [] OTHER -> Null

\* validateForm of the page, on the form data of one render
ValidateForm(page, formData, zone, day) ==
    CASE page = "addDriver"            -> ValidateDriverForm(formData)
      [] page = "addMaintenanceOrder"  -> ValidateAddOrderForm(formData, zone, day)
      [] page = "editMaintenanceOrder" -> ValidateEditOrderForm(formData, zone)

\* variant: a validation error does not stop the submit
ValidationNeverFails(validationError) == FALSE

\* if (validationError) { setErrorMessage(validationError); return; }
ValidationFailed(validationError) == validationError # Null

\* the first request handleSubmit sends, and the one that follows it
FirstRequest(page) ==
    CASE page = "addDriver"            -> "checkEmailUniqueness"
      [] page = "addMaintenanceOrder"  -> "addMaintenanceOrder"
      [] page = "editMaintenanceOrder" -> "updateMaintenanceOrder"

Request(name, formData) == [name |-> name, formData |-> formData]

\* first render of a form page
InitForm ==
    /\ ListUnmounted
    /\ GanttUnmounted
    /\ DashboardUnmounted
    /\ ListPageUnused
    /\ WizardUnmounted
    /\ AuthUnused
    /\ \E page \in FormPages, zone \in TimeZones, day \in TodayInputs :
          form = [page |-> page, zone |-> zone, today |-> day,
                  formData |-> InitialFormData(page, day),
                  isLoading |-> FALSE, successMessage |-> "", errorMessage |-> "",
                  awaiting |-> None, navigateTimer |-> FALSE,
                  lastOp |-> "mount", sent |-> None]

FormFrame == UNCHANGED <<ganttVars, listVars, dashboard, listPage, wizard, auth>>

\* the inputs of the order forms are not editable while loading; those of the
\* driver form are
FormHandleInputChange(name, value) ==
    /\ form.page \in FormPages
    /\ name \in FieldNames(form.page)
    /\ value \in FieldInputs(form.page, name, form.today)
    /\ form.page = "addDriver" \/ ~form.isLoading
    /\ form' = [form EXCEPT !.formData = [form.formData EXCEPT ![name] = value],
                            !.lastOp = "handleInputChange", !.sent = None]
    /\ FormFrame

\* the submit button is disabled while loading
FormHandleSubmit ==
    /\ form.page \in FormPages
    /\ ~form.isLoading
    /\ LET validationError ==
               ValidateForm(form.page, form.formData, form.zone, form.today)
           request == Request(FirstRequest(form.page), form.formData)
       IN form' = IF ValidationFailed(validationError)
                  THEN [form EXCEPT !.successMessage = "",
                                    !.errorMessage = validationError,
                                    !.lastOp = "handleSubmit", !.sent = None]
                  ELSE [form EXCEPT !.successMessage = "", !.errorMessage = "",
                                    !.isLoading = TRUE, !.awaiting = Some(request),
                                    !.lastOp = "handleSubmit", !.sent = Some(request)]
    /\ FormFrame

\* handleSubmit resumes after the request it awaits has resolved
FormRequestResolved(isEmailUnique) ==
    /\ form.page \in FormPages
    /\ form.awaiting # None
    /\ LET name == form.awaiting[1].name
           addDriver == Request("addDriver", form.awaiting[1].formData)
           refreshData == Request("refreshData", form.awaiting[1].formData)
       IN form' =
            CASE name = "checkEmailUniqueness" /\ ~isEmailUnique ->
                   [form EXCEPT !.errorMessage = "A driver with this email address already exists",
                                !.isLoading = FALSE, !.awaiting = None,
                                !.lastOp = "resolved", !.sent = None]
              [] name = "checkEmailUniqueness" /\ isEmailUnique ->
                   [form EXCEPT !.awaiting = Some(addDriver),
                                !.lastOp = "resolved", !.sent = Some(addDriver)]
              [] name \in {"addDriver", "addMaintenanceOrder", "updateMaintenanceOrder"} ->
                   [form EXCEPT !.successMessage = "saved", !.awaiting = Some(refreshData),
                                !.lastOp = "resolved", !.sent = Some(refreshData)]
              [] name = "refreshData" ->
                   [form EXCEPT !.isLoading = FALSE, !.awaiting = None,
                                !.navigateTimer = TRUE,
                                !.lastOp = "resolved", !.sent = None]
    /\ FormFrame

\* the request handleSubmit awaits has failed: catch, then finally
FormRequestRejected ==
    /\ form.page \in FormPages
    /\ form.awaiting # None
    /\ form' = [form EXCEPT !.errorMessage = "Failed",
                            !.isLoading = FALSE, !.awaiting = None,
                            !.lastOp = "rejected", !.sent = None]
    /\ FormFrame

\* the effect that clears both messages five seconds after one was set
FormMessageTimeout ==
    /\ form.page \in FormPages
    /\ form.successMessage # "" \/ form.errorMessage # ""
    /\ form' = [form EXCEPT !.successMessage = "", !.errorMessage = "",
                            !.lastOp = "messageTimeout", !.sent = None]
    /\ FormFrame

FormDismissMessage(type) ==
    /\ form.page \in FormPages
    /\ form' = IF type = "success"
               THEN [form EXCEPT !.successMessage = "", !.lastOp = "dismissMessage",
                                 !.sent = None]
               ELSE [form EXCEPT !.errorMessage = "", !.lastOp = "dismissMessage",
                                 !.sent = None]
    /\ FormFrame

\* the timer set after a successful save leaves the page
FormNavigate ==
    /\ form.page \in FormPages
    /\ form.navigateTimer
    /\ form' = [page |-> "none"]
    /\ FormFrame

NextForm ==
    \/ /\ form.page \in FormPages
       /\ \E name \in FieldNames(form.page) :
             \E value \in FieldInputs(form.page, name, form.today) :
                FormHandleInputChange(name, value)
    \/ FormHandleSubmit
    \/ \E isEmailUnique \in BOOLEAN : FormRequestResolved(isEmailUnique)
    \/ FormRequestRejected
    \/ FormMessageTimeout
    \/ \E type \in {"success", "error"} : FormDismissMessage(type)
    \/ FormNavigate

SpecForm == InitForm /\ [][NextForm]_vars

\* ----------------------------------------------------- claims on the forms
\* the form data a request was built from passes validateForm
Validated(request) ==
    ValidateForm(form.page, request.formData, form.zone, form.today) = Null

\* C21: a submit whose validation fails sends no request, shows the
\* validation message inline and leaves isLoading false; every check, create
\* or update request is built from form data that passed validation
C21_InvalidSubmitSendsNothing ==
    form.page \in FormPages =>
        /\ form.lastOp = "handleSubmit"
           /\ ValidateForm(form.page, form.formData, form.zone, form.today) # Null
           => /\ form.sent = None
              /\ form.awaiting = None
              /\ form.errorMessage # ""
              /\ form.errorMessage
                   = ValidateForm(form.page, form.formData, form.zone, form.today)
              /\ ~form.isLoading
        /\ form.sent # None => Validated(form.sent[1])
        /\ form.awaiting # None => Validated(form.awaiting[1])

\* a submit of an invalid form has just run, after an earlier submit had
\* sent its request
C21_Witness ==
    /\ form.page \in FormPages
    /\ form.lastOp = "handleSubmit"
    /\ ValidateForm(form.page, form.formData, form.zone, form.today) # Null
    /\ form.navigateTimer

\* ------------------------------------------------------------- dashboard
MaxVehicles == 2

\* vehicles of the fleet data; a maintenanceCost of None is null
VehicleInputs ==
    {[status |-> st, maintenanceCost |-> c] :
        st \in {"active", "maintenance", "idle"}, c \in {None, Some(10), Some(50)}}

\* summaries the backend may supply: a complete one (which need not agree
\* with the collections) and one with a single field
BackendSummaries ==
    {[totalVehicles |-> Some(9), totalDrivers |-> Some(8), activeVehiclesCount |-> Some(7),
      totalMaintenanceCost |-> Some(600),
      vehicleStatusCounts |-> Some([active |-> 7, maintenance |-> 1, idle |-> 1]),
      highestMaintenanceCostVehicle |-> Some([status |-> "active", maintenanceCost |-> Some(500)]),
      lowestMaintenanceCostVehicle |-> Some([status |-> "idle", maintenanceCost |-> Some(100)])],
     [totalVehicles |-> Some(9), totalDrivers |-> None, activeVehiclesCount |-> None,
      totalMaintenanceCost |-> None, vehicleStatusCounts |-> None,
      highestMaintenanceCostVehicle |-> None, lowestMaintenanceCostVehicle |-> None]}

FleetData ==
    [vehicles : ListsOf(VehicleInputs, MaxVehicles),
     drivers  : {<<>>, <<"d1">>},
     summary  : {None} \cup {Some(b) : b \in BackendSummaries}]

\* summary?.field ?? fallback
Coalesce(summary, field, fallback) ==
    IF summary = None \/ summary[1][field] = None THEN fallback ELSE summary[1][field][1]

\* vehicles.filter(v => v.status === status).length
CountStatus(vehicles, status) ==
    Cardinality({i \in 1 .. Len(vehicles) : vehicles[i].status = status})

\* vehicles.reduce((sum, v) => sum + (v.maintenanceCost || 0), 0)
RECURSIVE SumMaintenanceCost(_)
SumMaintenanceCost(vehicles) ==
    IF vehicles = <<>> THEN 0
    ELSE LET v == vehicles[Len(vehicles)]
         IN SumMaintenanceCost(SubSeq(vehicles, 1, Len(vehicles) - 1))
            + (IF v.maintenanceCost = None THEN 0 ELSE v.maintenanceCost[1])

\* count / total * 100; None is NaN (0 / 0)
Percentage(count, total) ==
    IF total = 0 THEN None ELSE Some((count * 100) \div total)

\* variant: the chart without its empty state
DonutChartAlwaysDrawn(activeCount, maintenanceCount, idleCount) ==
    LET total == activeCount + maintenanceCount + idleCount
    IN [empty |-> FALSE,
        percentages |-> <<Percentage(activeCount, total),
                          Percentage(maintenanceCount, total),
                          Percentage(idleCount, total)>>]

VehicleStatusDonutChart(activeCount, maintenanceCount, idleCount) ==
    LET total == activeCount + maintenanceCount + idleCount
    IN IF total = 0
       THEN [empty |-> TRUE, percentages |-> <<>>]
       ELSE [empty |-> FALSE,
             percentages |-> <<Percentage(activeCount, total),
                               Percentage(maintenanceCount, total),
                               Percentage(idleCount, total)>>]

\* summary?.field && <card>: the card, or None when nothing is drawn
Card(summary, field) == IF summary = None THEN None ELSE summary[1][field]

\* what DashboardScreen shows for the fleet data (not loading, no error)
DashboardScreen(data) ==
    LET vehicles == data.vehicles
        summary == data.summary
        vehicleStatusCounts ==
            Coalesce(summary, "vehicleStatusCounts",
                     [active      |-> CountStatus(vehicles, "active"),
                      maintenance |-> CountStatus(vehicles, "maintenance"),
                      idle        |-> CountStatus(vehicles, "idle")])
    IN [totalVehicles  |-> Some(Coalesce(summary, "totalVehicles", Len(vehicles))),
        totalDrivers   |-> Some(Coalesce(summary, "totalDrivers", Len(data.drivers))),
        activeVehicles |-> Some(Coalesce(summary, "activeVehiclesCount",
                                         CountStatus(vehicles, "active"))),
        totalMaintenanceCost |-> Some(Coalesce(summary, "totalMaintenanceCost",
                                               SumMaintenanceCost(vehicles))),
        vehicleStatusCounts |-> Some(vehicleStatusCounts),
        highestMaintenanceCostVehicle |-> Card(summary, "highestMaintenanceCostVehicle"),
        lowestMaintenanceCostVehicle  |-> Card(summary, "lowestMaintenanceCostVehicle"),
        donut |-> VehicleStatusDonutChart(vehicleStatusCounts.active,
                                          vehicleStatusCounts.maintenance,
                                          vehicleStatusCounts.idle)]

\* first render of the dashboard once the fleet data has loaded
InitDashboard ==
    /\ ListUnmounted
    /\ GanttUnmounted
    /\ FormUnmounted
    /\ ListPageUnused
    /\ WizardUnmounted
    /\ AuthUnused
    /\ \E data \in FleetData :
          dashboard = [mounted |-> TRUE, data |-> data, screen |-> DashboardScreen(data)]

\* pull to refresh: the fleet data is loaded again and the screen redrawn
DashboardRefreshData(data) ==
    /\ dashboard.mounted
    /\ dashboard' = [mounted |-> TRUE, data |-> data, screen |-> DashboardScreen(data)]
    /\ UNCHANGED <<ganttVars, listVars, form, listPage, wizard, auth>>

NextDashboard == \E data \in FleetData : DashboardRefreshData(data)

SpecDashboard == InitDashboard /\ [][NextDashboard]_vars

\* ------------------------------------------------- claims on the dashboard
\* the fields of the screen that show something
FieldsShown(screen) ==
    {f \in DOMAIN screen \ {"donut"} : screen[f] # None}

\* the summary has every field
Complete(summary) ==
    summary # None /\ \A f \in DOMAIN summary[1] : summary[1][f] # None

\* the position of the first vehicle whose cost is the highest (lowest when
\* sign is -1); a null cost counts as 0
FirstExtremal(vehicles, sign) ==
    LET cost(i) == IF vehicles[i].maintenanceCost = None THEN 0
                   ELSE vehicles[i].maintenanceCost[1]
    IN CHOOSE i \in 1 .. Len(vehicles) :
          /\ \A j \in 1 .. Len(vehicles) : sign * cost(j) <= sign * cost(i)
          /\ \A j \in 1 .. i - 1 : cost(j) # cost(i)

\* C22: a backend summary that is present is shown verbatim, without one the
\* counts and the cost are computed from the collections, and the screen
\* shows the same fields on both paths
C22_SameFieldsOnBothPaths ==
    dashboard.mounted =>
        LET data == dashboard.data
            screen == dashboard.screen
            summary == data.summary
        IN /\ Complete(summary) =>
                /\ screen.totalVehicles = summary[1].totalVehicles
                /\ screen.totalDrivers = summary[1].totalDrivers
                /\ screen.activeVehicles = summary[1].activeVehiclesCount
                /\ screen.totalMaintenanceCost = summary[1].totalMaintenanceCost
                /\ screen.vehicleStatusCounts = summary[1].vehicleStatusCounts
           /\ summary = None =>
                /\ screen.totalVehicles = Some(Len(data.vehicles))
                /\ screen.totalDrivers = Some(Len(data.drivers))
                /\ screen.totalMaintenanceCost = Some(SumMaintenanceCost(data.vehicles))
                /\ \A st \in {"active", "maintenance", "idle"} :
                      screen.vehicleStatusCounts[1][st] = CountStatus(data.vehicles, st)
           /\ \A b \in BackendSummaries :
                Complete(Some(b)) =>
                   FieldsShown(DashboardScreen([data EXCEPT !.summary = Some(b)]))
                     = FieldsShown(DashboardScreen([data EXCEPT !.summary = None]))

\* C23: without a backend summary the screen shows the first vehicle of
\* highest cost and the first vehicle of lowest cost
C23_ExtremesComputed ==
    dashboard.mounted /\ dashboard.data.summary = None /\ dashboard.data.vehicles # <<>> =>
        LET vehicles == dashboard.data.vehicles
        IN /\ dashboard.screen.highestMaintenanceCostVehicle
                = Some(vehicles[FirstExtremal(vehicles, 1)])
           /\ dashboard.screen.lowestMaintenanceCostVehicle
                = Some(vehicles[FirstExtremal(vehicles, -1)])

\* C24: with no vehicles, no drivers and no backend summary every count and
\* the total cost are 0, no extremal vehicle is shown, and the status chart
\* shows its empty state instead of dividing by zero
C24_EmptyFleet ==
    /\ dashboard.mounted
    /\ dashboard.data.vehicles = <<>>
    /\ dashboard.data.drivers = <<>>
    /\ dashboard.data.summary = None
    => LET screen == dashboard.screen
       IN /\ screen.totalVehicles = Some(0)
          /\ screen.totalDrivers = Some(0)
          /\ screen.activeVehicles = Some(0)
          /\ screen.totalMaintenanceCost = Some(0)
          /\ screen.vehicleStatusCounts = Some([active |-> 0, maintenance |-> 0, idle |-> 0])
          /\ screen.highestMaintenanceCostVehicle = None
          /\ screen.lowestMaintenanceCostVehicle = None
          /\ screen.donut.empty
          /\ \A i \in DOMAIN screen.donut.percentages : screen.donut.percentages[i] # None

\* the dashboard is drawn for a fleet with no vehicle, no driver and no
\* backend summary
C24_Witness ==
    /\ dashboard.mounted
    /\ dashboard.data = [vehicles |-> <<>>, drivers |-> <<>>, summary |-> None]
    /\ dashboard.screen.donut.empty

\* ------------------------------------------------------ schedule duration
\* variant: the day count without the end day
GetScheduleDurationExclusive(startDate, endDate) ==
    Minus(GetDaysBetweenDates(ParseDate(startDate), ParseDateEnd(endDate)), 1)

\* VehicleSchedulesPage.getScheduleDuration: the number in "<n> day(s)"
GetScheduleDuration(startDate, endDate) ==
    GetDaysBetweenDates(ParseDate(startDate), ParseDateEnd(endDate))

MaxRecords == 7

\* hooks whose page offers delete with a confirmation modal
DeleteHooks == {"schedules", "drivers"}

\* number of pages the server reports for count records
PagesOf(count, limit) == (count + limit - 1) \div limit

\* the records listed on the page shown, numbered by their position
RowsShown ==
    {r \in 1 .. listPage.backend :
        /\ r > (currentPage - 1) * itemsPerPage
        /\ r <= currentPage * itemsPerPage}

\* first render of VehicleSchedulesPage or DriversPage
InitListPage ==
    /\ FormUnmounted /\ DashboardUnmounted /\ GanttUnmounted /\ WizardUnmounted
    /\ AuthUnused
    /\ \E h \in DeleteHooks : HookMounted(h)
    /\ \E count \in 0 .. MaxRecords :
          listPage = [deleteModal |-> ModalClosed, isDeleting |-> FALSE,
                      awaiting |-> "none", sent |-> None, backend |-> count]

\* the list behind the modal can be used: no modal, no request pending, and
\* confirmDelete is not about to resume
ListUsable ==
    /\ mounted
    /\ Idle
    /\ ~listPage.deleteModal.isOpen
    /\ listPage.awaiting # "refreshData"

\* Previous / Next of the pagination bar
PageButton(delta) ==
    /\ ListUsable
    /\ totalPages > 1
    /\ ~loading
    /\ IF delta < 0 THEN hasPreviousPage ELSE hasNextPage
    /\ IF hook = "drivers"
       THEN HandlePageChange(currentPage + delta)
       ELSE SetCurrentPage(currentPage + delta)

\* the response of the server for the records it holds
ListResponse ==
    \E i \in 1 .. Len(inflight) :
        \/ FetchSucceeded(i, PagesOf(listPage.backend, inflight[i].limit))
        \/ FetchFailedWith(i)

\* what every step of the delete flow leaves alone
DeleteFrame ==
    UNCHANGED <<form, dashboard, wizard, auth, ganttVars, hook, mounted, queryVars,
                debounceVars, timerVars, dataVars>>

\* handleDeleteSchedule / handleDeleteDriver: the trash button of a row
HandleDelete(schedule) ==
    /\ ListUsable
    /\ error = Null
    /\ schedule \in RowsShown
    /\ listPage' = [listPage EXCEPT !.deleteModal = [isOpen |-> TRUE, schedule |-> Some(schedule)],
                                    !.sent = None]
    /\ lastOp' = Op("handleDelete")
    /\ DeleteFrame /\ UNCHANGED fetchVars

\* Cancel (disabled while deleting), or the close button of the modal's
\* header and the back key (never disabled)
CloseDeleteModal(button) ==
    /\ listPage.deleteModal.isOpen
    /\ button = "cancel" => ~listPage.isDeleting
    /\ listPage' = [listPage EXCEPT !.deleteModal = ModalClosed, !.sent = None]
    /\ lastOp' = Op("closeDeleteModal")
    /\ DeleteFrame /\ UNCHANGED fetchVars

\* variant: the confirm button stays enabled while deleting
ConfirmAlwaysEnabled == TRUE

\* disabled={isDeleting} of the confirm button
ConfirmEnabled == ~listPage.isDeleting

\* confirmDeleteSchedule / confirmDeleteDriver up to its first await
ConfirmDelete ==
    /\ listPage.deleteModal.isOpen
    /\ ConfirmEnabled
    /\ listPage.deleteModal.schedule # None
    /\ listPage' = [listPage EXCEPT !.isDeleting = TRUE, !.awaiting = "delete",
                                    !.sent = listPage.deleteModal.schedule]
    /\ lastOp' = Op("confirmDelete")
    /\ DeleteFrame /\ UNCHANGED fetchVars

\* the delete request succeeded: the record is gone and refreshData() is
\* called
DeleteResolved ==
    /\ listPage.awaiting = "delete"
    /\ mounted /\ Idle
    /\ listPage' = [listPage EXCEPT !.awaiting = "refreshData", !.sent = None,
                                    !.backend = Max(0, listPage.backend - 1)]
    /\ lastOp' = Op("deleteResolved")
    /\ DeleteFrame
    /\ IssueFetch

\* the delete request failed: catch, then finally
DeleteRejected ==
    /\ listPage.awaiting = "delete"
    /\ listPage' = [listPage EXCEPT !.isDeleting = FALSE, !.awaiting = "none",
                                    !.sent = None]
    /\ lastOp' = Op("deleteRejected")
    /\ DeleteFrame /\ UNCHANGED fetchVars

\* refreshData() has returned (fetchData handles its own failure): the modal
\* is closed, then finally
DeleteFinished ==
    /\ listPage.awaiting = "refreshData"
    /\ Idle
    /\ listPage' = [listPage EXCEPT !.deleteModal = ModalClosed, !.isDeleting = FALSE,
                                    !.awaiting = "none", !.sent = None]
    /\ lastOp' = Op("deleteFinished")
    /\ DeleteFrame /\ UNCHANGED fetchVars

NextListPage ==
    \/ \E delta \in {-1, 1} : PageButton(delta)
    \/ ListUsable /\ \E l \in LimitInputs(hook) : SetItemsPerPage(l)
    \/ ListUsable /\ RefreshData
    \/ Tick
    \/ ListUsable /\ DebounceTimeout
    \/ ListResponse
    \/ \E schedule \in 1 .. MaxRecords : HandleDelete(schedule)
    \/ \E button \in {"cancel", "close"} : CloseDeleteModal(button)
    \/ ConfirmDelete
    \/ DeleteResolved
    \/ DeleteRejected
    \/ DeleteFinished

SpecListPage == InitListPage /\ [][NextListPage]_vars

\* ------------------------------------------------ claims on the list page
\* C26: when no request is pending and the last one succeeded, the current
\* page is one of the pages the server reported (page 1 when it reported none)
C26_PageWithinRange ==
    mounted /\ Idle /\ ~loading /\ error = Null /\ listPage.awaiting = "none"
    => currentPage \in 1 .. Max(1, totalPages)

\* C29, one step at a time: a delete request is sent only by the confirm
\* button of the open modal, for the record the modal shows, and never while
\* another delete is in progress; cancel is not available while deleting;
\* when the delete has succeeded the list is refreshed with the modal as it
\* was, and the modal closes once the refresh has returned; when the delete
\* has failed the modal is left as it was and isDeleting is false again
C29_Step ==
    LET before == listPage
        after == listPage'
        step == lastOp'.name
    IN /\ after.sent # None /\ after # before =>
            /\ step = "confirmDelete"
            /\ before.deleteModal.isOpen
            /\ after.sent = before.deleteModal.schedule
            /\ ~before.isDeleting
            /\ after.isDeleting
       /\ before.isDeleting /\ after # before =>
            step \in {"closeDeleteModal", "handleDelete", "deleteResolved",
                      "deleteRejected", "deleteFinished"}
       /\ before.isDeleting /\ step = "closeDeleteModal" => after.isDeleting
       /\ step = "deleteResolved" /\ after # before =>
            /\ Len(inflight') = Len(inflight) + 1
            /\ after.deleteModal = before.deleteModal
            /\ after.isDeleting
       /\ step = "deleteFinished" /\ after # before =>
            /\ before.awaiting = "refreshData"
            /\ inflight = <<>>
            /\ ~after.deleteModal.isOpen
            /\ ~after.isDeleting
       /\ step = "deleteRejected" /\ after # before =>
            /\ after.deleteModal = before.deleteModal
            /\ ~after.isDeleting

C29_DeleteOnlyAfterConfirm == [][C29_Step]_vars

\* a delete has failed and its modal is still open, showing the record
C29_Witness ==
    /\ lastOp.name = "deleteRejected"
    /\ listPage.deleteModal.isOpen
    /\ listPage.deleteModal.schedule # None
    /\ ~listPage.isDeleting

\* ------------------------------------------------- create-schedule wizard
\* ids of data.vehicles and data.drivers, which the two pickers offer
FleetIds == [vehicleId |-> {"v1"}, driverId |-> {"d1"}]

\* the fields shown at a step, and what can be entered into each; the dates
\* are free text
WizardFields(step) ==
    CASE step = 1 -> {"vehicleId"}
      [] step = 2 -> {"startDate", "endDate"}
      [] step = 3 -> {"driverId"}

WizardInputs(name, day) ==
    IF name \in {"startDate", "endDate"}
    THEN {None, NotADate, Some(day - 1), Some(day), Some(day + 1)}
    ELSE {""} \cup FleetIds[name]

\* validateCurrentStep: the error of the step, or Null
ValidateCurrentStep(step, formData, zone, day) ==
    CASE step = 1 ->
           IF formData.vehicleId = "" THEN "Vehicle selection is required"
           ELSE IF formData.vehicleId \notin FleetIds.vehicleId
                THEN "Selected vehicle not found" ELSE Null
      [] step = 2 ->
           IF formData.startDate = None THEN "Start date is required"
           ELSE IF formData.endDate = None THEN "End date is required"
           ELSE LET startDate == FormDate(formData.startDate, zone)
                    endDate == FormDate(formData.endDate, zone)
                IN IF Before(startDate, Some(Instant(day, StartOfDay)))
                   THEN "Start date cannot be in the past"
                   ELSE IF NotAfter(endDate, startDate)
                        THEN "End date must be after start date" ELSE Null
      [] step = 3 ->
           IF formData.driverId = "" THEN "Driver selection is required"
           ELSE IF formData.driverId \notin FleetIds.driverId
                THEN "Selected driver not found" ELSE Null

\* step 2 shows the duration once both dates hold text, through
\* parseDate / parseDateEnd: the render fails if these raise on other text
DurationRaises(step, formData, throws) ==
    /\ throws
    /\ step = 2
    /\ formData.startDate # None /\ formData.endDate # None
    /\ NotADate \in {formData.startDate, formData.endDate}

\* first render of AddVehicleSchedulePage
InitWizard ==
    /\ ListUnmounted /\ GanttUnmounted
    /\ FormUnmounted /\ DashboardUnmounted /\ ListPageUnused /\ AuthUnused
    /\ \E zone \in TimeZones, day \in TodayInputs, throws \in BOOLEAN :
          wizard = [mounted |-> TRUE, zone |-> zone, today |-> day, parseThrows |-> throws,
                    crashed |-> FALSE, currentStep |-> 1,
                    formData |-> [vehicleId |-> "", startDate |-> None, endDate |-> None,
                                  driverId |-> ""],
                    isLoading |-> FALSE, successMessage |-> "", errorMessage |-> "",
                    stepErrors |-> [n \in 1 .. 3 |-> ""],
                    awaiting |-> "none", lastOp |-> "mount", sent |-> None]

WizardFrame == UNCHANGED <<ganttVars, listVars, form, dashboard, listPage, auth>>

WizardUsable == wizard.mounted /\ ~wizard.crashed

\* handleInputChange on a field of the step shown (inputs and pickers are
\* disabled while loading)
WizardHandleInputChange(name, value) ==
    /\ WizardUsable
    /\ ~wizard.isLoading
    /\ name \in WizardFields(wizard.currentStep)
    /\ LET formData == [wizard.formData EXCEPT ![name] = value]
       IN wizard' = [wizard EXCEPT
                        !.formData = formData,
                        !.stepErrors[wizard.currentStep] = "",
                        !.crashed = DurationRaises(wizard.currentStep, formData,
                                                   wizard.parseThrows),
                        !.lastOp = "handleInputChange", !.sent = None]
    /\ WizardFrame

\* handleNext (the button is shown at steps 1 and 2)
HandleNext ==
    /\ WizardUsable
    /\ ~wizard.isLoading
    /\ wizard.currentStep < 3
    /\ LET stepError == ValidateCurrentStep(wizard.currentStep, wizard.formData,
                                            wizard.zone, wizard.today)
           nextStep == IF wizard.currentStep + 1 < 3 THEN wizard.currentStep + 1 ELSE 3
       IN wizard' = IF stepError # Null
                    THEN [wizard EXCEPT !.stepErrors[wizard.currentStep] = stepError,
                                        !.lastOp = "handleNextBlocked", !.sent = None]
                    ELSE [wizard EXCEPT
                             !.currentStep = nextStep,
                             !.crashed = DurationRaises(nextStep, wizard.formData,
                                                        wizard.parseThrows),
                             !.lastOp = "handleNext", !.sent = None]
    /\ WizardFrame

\* handleBack (the button is shown at steps 2 and 3)
HandleBack ==
    /\ WizardUsable
    /\ ~wizard.isLoading
    /\ wizard.currentStep > 1
    /\ LET previous == Max(wizard.currentStep - 1, 1)
       IN wizard' = [wizard EXCEPT
                        !.currentStep = previous,
                        !.crashed = DurationRaises(previous, wizard.formData,
                                                   wizard.parseThrows),
                        !.lastOp = "handleBack", !.sent = None]
    /\ WizardFrame

\* handleSubmit up to its first await (the button is shown at step 3)
WizardHandleSubmit ==
    /\ WizardUsable
    /\ ~wizard.isLoading
    /\ wizard.currentStep = 3
    /\ LET stepError == ValidateCurrentStep(wizard.currentStep, wizard.formData,
                                            wizard.zone, wizard.today)
       IN wizard' = IF stepError # Null
                    THEN [wizard EXCEPT !.successMessage = "", !.errorMessage = "",
                                        !.stepErrors[wizard.currentStep] = stepError,
                                        !.lastOp = "handleSubmit", !.sent = None]
                    ELSE [wizard EXCEPT !.successMessage = "", !.errorMessage = "",
                                        !.isLoading = TRUE,
                                        !.awaiting = "addVehicleSchedule",
                                        !.lastOp = "handleSubmit",
                                        !.sent = Some(wizard.formData)]
    /\ WizardFrame

\* handleSubmit resumes: the request it awaits has resolved or failed
WizardRequestSettled(ok) ==
    /\ WizardUsable
    /\ wizard.awaiting # "none"
    /\ wizard' =
         CASE ~ok ->
                [wizard EXCEPT !.errorMessage = "Failed", !.isLoading = FALSE,
                               !.awaiting = "none", !.lastOp = "rejected", !.sent = None]
           [] ok /\ wizard.awaiting = "addVehicleSchedule" ->
                [wizard EXCEPT !.successMessage = "created", !.awaiting = "refreshData",
                               !.lastOp = "resolved", !.sent = None]
           [] ok /\ wizard.awaiting = "refreshData" ->
                [wizard EXCEPT !.isLoading = FALSE, !.awaiting = "none",
                               !.lastOp = "resolved", !.sent = None]
    /\ WizardFrame

\* the effect that clears both messages five seconds after one was set
WizardMessageTimeout ==
    /\ WizardUsable
    /\ wizard.successMessage # "" \/ wizard.errorMessage # ""
    /\ wizard' = [wizard EXCEPT !.successMessage = "", !.errorMessage = "",
                                !.lastOp = "messageTimeout", !.sent = None]
    /\ WizardFrame

NextWizard ==
    \/ /\ WizardUsable
       /\ \E name \in WizardFields(wizard.currentStep) :
             \E value \in WizardInputs(name, wizard.today) :
                WizardHandleInputChange(name, value)
    \/ HandleNext
    \/ HandleBack
    \/ WizardHandleSubmit
    \/ \E ok \in BOOLEAN : WizardRequestSettled(ok)
    \/ WizardMessageTimeout

SpecWizard == InitWizard /\ [][NextWizard]_vars

\* --------------------------------------------------- claims on the wizard
\* C27: the create request is sent only from step 3 and only with a
\* vehicle, a driver and two dates of which the end is strictly after the
\* start; the step is always 1, 2 or 3; Next advances only from a step that
\* validates
C27_CreateOnlyWhenValid ==
    wizard.mounted =>
        /\ wizard.currentStep \in 1 .. 3
        /\ wizard.lastOp = "handleNext" /\ ~wizard.crashed =>
              ValidateCurrentStep(wizard.currentStep - 1, wizard.formData,
                                  wizard.zone, wizard.today) = Null
        /\ wizard.sent # None =>
              LET scheduleData == wizard.sent[1]
              IN /\ wizard.currentStep = 3
                 /\ scheduleData.vehicleId # ""
                 /\ scheduleData.driverId # ""
                 /\ scheduleData.startDate # None
                 /\ scheduleData.endDate # None
                 /\ Before(FormDate(scheduleData.startDate, wizard.zone),
                           FormDate(scheduleData.endDate, wizard.zone))

\* --------------------------------------------- claims on the date window
\* C28: before and after every navigation step the window starts at a valid
\* instant and shows 7, 14 or 30 days; previous week and next week move the
\* start by exactly 7 days, keeping the time of day and the number of days
\* shown; text that is not a date is never accepted as a start date
C28_Step ==
    /\ daysToShow \in {7, 14, 30} /\ daysToShow' \in {7, 14, 30}
    /\ currentStartDate \in 0 .. Instant(MaxDay, EndOfDay)
    /\ currentStartDate' \in 0 .. Instant(MaxDay, EndOfDay)
    /\ GoToPreviousWeek =>
          /\ DayOf(currentStartDate') = DayOf(currentStartDate) - 7
          /\ currentStartDate' % DayParts = currentStartDate % DayParts
          /\ daysToShow' = daysToShow
    /\ GoToNextWeek =>
          /\ DayOf(currentStartDate') = DayOf(currentStartDate) + 7
          /\ currentStartDate' % DayParts = currentStartDate % DayParts
          /\ daysToShow' = daysToShow
    /\ \A zone \in TimeZones :
          /\ ~EntryAccepted(NewDate(None, zone))
          /\ HandleStartDateChange(None, zone) => UNCHANGED <<currentStartDate, daysToShow>>

C28_WindowStaysValid == [][C28_Step]_vars

\* a two-week window was moved back by one week from today
C28_Witness ==
    /\ today = 7
    /\ daysToShow = 14
    /\ currentStartDate = Instant(0, StartOfDay)

\* ------------------------------------------------------------ authService
\* token texts a response may carry; the empty text counts as no token
ResponseTokens == {"", "t1", "t2"}

\* the JSON bodies of a response: each field may be missing
Bodies == [token : {None} \cup {Some(t) : t \in ResponseTokens},
           user : {None, Some("u1")}]

\* what fetch delivers: a status that is ok or not, and a JSON body or none
\* (status 204, no content, no JSON content type, blank text)
Responses ==
    {[ok |-> FALSE, body |-> None]} \cup
    {[ok |-> TRUE, body |-> b] : b \in {None} \cup {Some(b) : b \in Bodies}}

\* apiCall: raises when the status is not ok, returns null without a JSON body
ApiCall(response) ==
    IF ~response.ok THEN [thrown |-> TRUE, value |-> None]
    ELSE [thrown |-> FALSE, value |-> response.body]

\* if (response.token)
Truthy(token) == token # None /\ token[1] # ""

\* signIn after apiCall: reading a field of null or of a missing user raises,
\* and every raise ends in the catch that returns the error
SignInOutcome(token, response) ==
    LET call == ApiCall(response)
    IN IF call.thrown \/ call.value = None
       THEN [token |-> token, result |-> "error"]
       ELSE LET data == call.value[1]
                stored == IF Truthy(data.token) THEN data.token ELSE token
            IN [token |-> stored,
                result |-> IF data.user = None THEN "error" ELSE "user"]

\* getSession after apiCall: the catch removes the token
GetSessionOutcome(token, response) ==
    LET call == ApiCall(response)
    IN IF call.thrown \/ call.value = None \/ call.value[1].user = None
       THEN [token |-> None, result |-> "noUser"]
       ELSE [token |-> token, result |-> "user"]

\* the application starts with or without a token kept from an earlier run
InitAuth ==
    /\ ListUnmounted /\ GanttUnmounted
    /\ FormUnmounted /\ DashboardUnmounted /\ ListPageUnused /\ WizardUnmounted
    /\ \E token \in {None, Some("t1")} :
          auth = [started |-> TRUE, token |-> token, inflight |-> {}, lastOp |-> "none",
                  response |-> None, result |-> "none"]

AuthFrame == UNCHANGED <<ganttVars, listVars, form, dashboard, listPage, wizard>>

\* apiCall up to fetch: the stored token goes into the Authorization header
Fetch(op) ==
    /\ auth.started
    /\ \A call \in auth.inflight : call.op # op
    /\ auth' = [auth EXCEPT !.inflight = @ \cup {[op |-> op, authorization |-> auth.token]},
                            !.lastOp = op, !.response = None, !.result = "none"]
    /\ AuthFrame

SignIn == Fetch("signIn")

SignOut == Fetch("signOut")

\* getSession: without a token it returns at once
GetSession ==
    IF auth.token = None
    THEN /\ auth.started
         /\ auth' = [auth EXCEPT !.lastOp = "getSession", !.response = None,
                                 !.result = "noUser"]
         /\ AuthFrame
    ELSE Fetch("getSession")

Settle(call, response, outcome) ==
    /\ call \in auth.inflight
    /\ auth' = [auth EXCEPT !.inflight = @ \ {call},
                            !.token = outcome.token,
                            !.lastOp = call.op \o "Settled",
                            !.response = Some(response),
                            !.result = outcome.result]
    /\ AuthFrame

SignInSettled(call, response) ==
    /\ call.op = "signIn"
    /\ Settle(call, response, SignInOutcome(auth.token, response))

\* signOut: the finally block removes the token after either outcome
SignOutSettled(call, response) ==
    /\ call.op = "signOut"
    /\ Settle(call, response, [token |-> None, result |-> "void"])

GetSessionSettled(call, response) ==
    /\ call.op = "getSession"
    /\ Settle(call, response, GetSessionOutcome(auth.token, response))

NextAuth ==
    \/ SignIn
    \/ SignOut
    \/ GetSession
    \/ \E call \in auth.inflight, response \in Responses :
          \/ SignInSettled(call, response)
          \/ SignOutSettled(call, response)
          \/ GetSessionSettled(call, response)

SpecAuth == InitAuth /\ [][NextAuth]_vars

\* ------------------------------------------------------ claims on authService
\* the token a response carries, if it carries one
Carried(response) ==
    IF response.ok /\ response.body # None /\ Truthy(response.body[1].token)
    THEN response.body[1].token
    ELSE None

\* C30: when signOut completes the storage holds no token, whatever the
\* response was; getSession without a stored token returns no user and sends
\* nothing; a getSession whose request fails removes the token and returns no
\* user; signIn changes the stored token only to the token its response
\* carries, and stores nothing when it returns an error
C30_Step ==
    LET before == auth
        after == auth'
        op == after.lastOp
    IN after # before =>
         /\ op = "signOutSettled" => after.token = None
         /\ (op = "getSession" /\ before.token = None) =>
               /\ after.result = "noUser"
               /\ after.inflight = before.inflight
               /\ after.token = None
         /\ (op = "getSessionSettled" /\ ~after.response[1].ok) =>
               /\ after.result = "noUser"
               /\ after.token = None
         /\ op = "signInSettled" =>
               /\ after.token # before.token => after.token = Carried(after.response[1])
               /\ after.result = "error" => after.token = before.token

C30_TokenHandling == [][C30_Step]_vars

====
